---- MODULE Spec2Model ----
(***************************************************************************)
(* Prof Tournesol controller (tournesol/controller/main.go, the enriched   *)
(* controller): the informer callbacks, the dedup gate of handleResult,    *)
(* and the pipeline fetch -> remediate -> publish with the inference       *)
(* retry loop and the endpoint health cache.                               *)
(*                                                                         *)
(* Strings that the code searches (err.Error() in the retry loop) are      *)
(* sequences of one-character strings.  Time is counted in whole minutes.  *)
(***************************************************************************)
EXTENDS Integers, Sequences, FiniteSets, TLC

\* ---------------------------------------------------------------- bounds
MaxEvents == 3
MaxTime == 1
MaxRetries == 6
MaxProse == 2
MaxArray == 2
MaxCalls == 2
MaxSignals == 2
MaxDepth == 3
MaxAttempts == 2

\* ------------------------------------------------------ program constants
DefaultMaxRetries == 3
BackoffCapSecs == 30
Minute == 1
HttpOKLow == 200
HttpOKHigh == 300
HttpErrorLow == 400
MemoryThreshold == 64
StatusOK == 200
StatusForbidden == 403
StatusNotFound == 404
FileMaxRetries == 3
TicksPerSecond == 2

\* ---------------------------------------------------------------- strings
Contains(s, sub) ==
  \E i \in 1..(Len(s) - Len(sub) + 1) : SubSeq(s, i, i + Len(sub) - 1) = sub

DigitChars == <<"0", "1", "2", "3", "4", "5", "6", "7", "8", "9">>

RECURSIVE Itoa(_)
Itoa(n) == IF n < 10 THEN <<DigitChars[n + 1]>>
           ELSE Itoa(n \div 10) \o <<DigitChars[(n % 10) + 1]>>

NonSuccessPrefix ==
  <<"r", "e", "c", "e", "i", "v", "e", "d", " ", "n", "o", "n", "-", "s", "u",
    "c", "c", "e", "s", "s", " ", "s", "t", "a", "t", "u", "s", " ", "c", "o",
    "d", "e", " ">>
SendFailedMsg ==
  <<"f", "a", "i", "l", "e", "d", " ", "t", "o", " ", "s", "e", "n", "d", " ",
    "H", "T", "T", "P", " ", "r", "e", "q", "u", "e", "s", "t">>
ParseFailedMsg ==
  <<"f", "a", "i", "l", "e", "d", " ", "t", "o", " ", "p", "a", "r", "s", "e",
    " ", "r", "e", "s", "p", "o", "n", "s", "e">>
BodyEmpty == << >>
BodyBadRequest == <<"b", "a", "d", " ", "r", "e", "q", "u", "e", "s", "t">>
BodySee503 == <<"s", "e", "e", " ", "5", "0", "3">>

\* ------------------------------------------------------------ watch events
\* metadata.uid / metadata.name of the watched Result resources: one with a
\* uid, one without (its identity is its name)
Metas == { [uid |-> "u1", name |-> "a"],
           [uid |-> "",   name |-> "a"] }
Versions == {"1", "2"}
\* spec.details, by whether the solution half mentions an out-of-memory kill
Solutions == {"oomkilled", "other"}

\* an add event carries one object; an update event the old and the new one,
\* here with the same or with a newer metadata.resourceVersion
Events ==
  [type : {"add"}, meta : Metas, oldVersion : {""}, newVersion : {"1"},
   solution : Solutions]
  \cup
  [type : {"update"}, meta : Metas, oldVersion : {"1"},
   newVersion : Versions, solution : Solutions]

NoEvent == [type |-> "none", meta |-> [uid |-> "", name |-> ""],
            oldVersion |-> "", newVersion |-> "", solution |-> ""]

\* handleResult: resourceID := uid, or name when the uid is empty
ResourceID(e) == IF e.meta.uid = "" THEN e.meta.name ELSE e.meta.uid

Identities == { ResourceID(e) : e \in Events }

\* ------------------------------------------------------------ source files
Paths == {"deployment.yaml", "notes.txt"}
\* the files under apps/<namespace>/, by relative path
Repository ==
  [p \in Paths |-> IF p = "deployment.yaml"
                   THEN [kind |-> "Deployment", memory |-> 6]
                   ELSE [kind |-> "Service", memory |-> 0]]
\* a fetch yields the files it could retrieve, at least one
FileMaps == { [p \in P |-> Repository[p]] : P \in (SUBSET Paths) \ {{}} }
NoFiles == << >>

\* what fetchGitHubFiles hands back: an error, or a mapping path -> content
FetchResults ==
  { [err |-> TRUE, files |-> NoFiles] } \cup
  { [err |-> FALSE, files |-> f] : f \in FileMaps }

\* ------------------------------------------------------- fallback heuristic
IsOOM(solution) == solution = "oomkilled"
HasYamlSuffix(path) == path \in {"deployment.yaml"}

\* the memory value the heuristic writes for a current value
NewMemory(mem) == IF mem = 0 \/ mem < 64 THEN 256 ELSE (mem * 3) \div 2

PatchedContent(c) ==
  IF c.kind = "Deployment" /\ c.memory # 0
  THEN [c EXCEPT !.memory = NewMemory(c.memory)]
  ELSE c

\* generateLocalFallbackResponse: one FileUpdate per changed Deployment file
generateLocalFallbackResponse(solution, files) ==
  IF ~IsOOM(solution) THEN {}
  ELSE { [path |-> p, content |-> PatchedContent(files[p])] :
           p \in { q \in DOMAIN files :
                     /\ HasYamlSuffix(q)
                     /\ files[q].kind = "Deployment"
                     /\ PatchedContent(files[q]) # files[q] } }

\* ------------------------------------------------------ inference endpoint
\* One answer to POST {base}/chat/completions.  status 0 is a transport
\* failure (no response); reply classifies a 2xx body:
\*   "notjson"   the body is not a JSON object
\*   "nochoices" JSON without choices[0].message.content as a string
\*   "prose"     content without a parsable array
\*   "array"     content holding the array given in updates
AIUpdate == [path |-> "deployment.yaml",
             content |-> [kind |-> "Deployment", memory |-> 512]]

AIResponses ==
  { [status |-> 0, body |-> BodyEmpty, reply |-> "none", updates |-> {}] }
  \cup
  [status : {200}, body : {BodyEmpty}, reply : {"notjson", "nochoices", "prose"},
   updates : {{}}]
  \cup
  [status : {200}, body : {BodyEmpty}, reply : {"array"},
   updates : {{}, {AIUpdate}}]
  \cup
  [status : {400}, body : {BodyBadRequest, BodySee503},
   reply : {"none"}, updates : {{}}]
  \cup
  [status : {503}, body : {BodyBadRequest}, reply : {"none"}, updates : {{}}]

NoResponse == [status |-> -1, body |-> BodyEmpty, reply |-> "none", updates |-> {}]

IsSuccessStatus(status) == status >= HttpOKLow /\ status < HttpOKHigh

\* tryAIEndpoint: the text of the error it returns, << >> for no error
AttemptError(resp) ==
  IF resp.status = 0 THEN SendFailedMsg
  ELSE IF ~IsSuccessStatus(resp.status)
       THEN NonSuccessPrefix \o Itoa(resp.status) \o <<":", " ">> \o resp.body
  ELSE IF resp.reply = "notjson" THEN ParseFailedMsg
  ELSE << >>

RetryableCodes == { <<"4", "2", "9">>, <<"5", "0", "0">>, <<"5", "0", "2">>,
                    <<"5", "0", "3">>, <<"5", "0", "4">> }

\* sendToAIEndpoint, "Don't retry on certain errors": the attempt is terminal
\* when the error text names a non-success status and none of the codes
NonRetryable(msg) ==
  /\ Contains(msg, NonSuccessPrefix)
  /\ \A code \in RetryableCodes : ~Contains(msg, code)

\* extractFileUpdatesFromResponse: error, or the parsed updates
ExtractFails(resp) == resp.reply \in {"nochoices", "prose"}

\* a backoff without the cap
BackoffUncapped(attempt) == 2 ^ attempt

\* sleep before attempt number `attempt` (attempt > 0)
Backoff(attempt) ==
  IF 2 ^ attempt > BackoffCapSecs THEN BackoffCapSecs ELSE 2 ^ attempt

\* ------------------------------------------------------------------ state
VARIABLES
  aiMaxRetries,         \* AI_MAX_RETRIES
  aiHealthCheck,        \* AI_HEALTH_CHECK
  nCallers,             \* goroutines on which the informer invokes callbacks
  budget,               \* watch events the cluster will send in this run
  mainpc,               \* main: "start" before the informer runs, "running"
  now,                  \* wall clock, minutes
  processedResources,   \* map resourceID -> bool (a function on the keys set)
  processedMutex,       \* run holding processedMutex, 0 when free
  endpointHealthy,
  lastHealthCheck,      \* [set, at]: set = FALSE is the zero time.Time
  endpointHealthMutex,  \* run holding endpointHealthMutex, 0 when free
  nEvents,              \* watch events delivered so far
  pc,                   \* per callback invocation: where it stands
  ev,                   \* the event it was invoked with
  caller,               \* the informer goroutine that runs it
  files,                \* handleResult: files
  attempt,              \* sendToAIEndpoint: attempt
  wait,                 \* seconds slept before the current attempt
  lastResp,             \* answer to the last chat/completions request
  fileUpdates,          \* handleResult: fileUpdates
  log,                  \* what this invocation has done so far
  gatePasses,           \* per identity: invocations that passed the gate
  fetchCalls,           \* per identity: fetchGitHubFiles calls
  publishCalls,         \* per identity: POST /pull_requests requests
  outcome,              \* per identity: how its last pipeline run ended
  \* one call of extractFileUpdatesFromResponse
  reply,                \* the model's reply in its parts: prose, array, prose
  content,              \* choices[0].message.content of the response
  extracted,            \* what the call returned
  \* calls of generateLocalFallbackResponse on one set of files
  fbSolution,           \* its argument solution
  fbFiles,              \* its argument files, file name -> content
  fbUpdates,            \* what the last call returned
  fbCalls,              \* calls made so far
  \* one call of fetchGitHubFiles
  ghApi,                \* how the contents API answers each request
  ghFiles,              \* what the call returned
  \* one call of fetchFileContent, request by request
  ffPc,                 \* "loop", "sleep", "check" or "done"
  ffI,                  \* the loop variable i
  ffNow,                \* the clock, in ticks
  ffResp,               \* resp: the last response
  ffRequests,           \* requests sent so far
  ffSleeps,             \* the sleeps so far
  ffResult,             \* what the call returned
  \* calls of sendToGHService
  pubNamespace,         \* diag.namespace
  pubUpdates,           \* the paths of fileUpdates
  pubSent,              \* the paths of ghFiles, as sent in the payload
  pubResp,              \* the answer to POST /pull_requests
  pubResult,            \* what the call returned
  pubCalls,             \* calls made so far
  \* handleResult from the gate to the fetch
  resObj,               \* obj: spec.name, metadata.namespace, spec.details
  diag,                 \* diag, once it is filled in
  fetchedFor,           \* the namespace fetchGitHubFiles was called with
  \* main and its goroutines, from signal.Notify on
  signalCh,             \* signals buffered in signalCh (capacity 1)
  stopCh,               \* "open" or "closed"
  closes,               \* close(stopCh) calls so far
  sigPc,                \* the signal goroutine: "receive", "close", "done"
  procMain,             \* main: "setup", "wait" (<-stopCh), "returned"
  informerRun,          \* informer.Run: "no", "running", "stopped"
  handlerBusy,          \* a handleResult call is in progress
  delivered,            \* watch events handed to the handlers so far
  signalsSent,          \* SIGINT/SIGTERM sent to the process so far
  exit,                 \* how the process ended: status, runs cut short
  \* a repository tree from the fetch to the payload
  repoTree,             \* the files under apps/ns, by repository path
  treePc,               \* "fetch", "publish" or "done"
  treeFiles,            \* files[key] = content of path, as assigned
  treeSent,             \* per file, the path sent for an update of its key
  \* two processes that differ in USE_FALLBACK, one engine call in each
  useFallback,          \* per process: useFallback
  flagIn,               \* what both meet: diagnostic, files, health, answers
  flagOut,              \* per process: the requests sent, what was returned
  banner                \* per process: the configuration line it printed

vars == << aiMaxRetries, aiHealthCheck, nCallers, budget, mainpc, now,
           processedResources, processedMutex, endpointHealthy,
           lastHealthCheck, endpointHealthMutex, nEvents, pc, ev, caller,
           files, attempt, wait, lastResp, fileUpdates, log, gatePasses,
           fetchCalls, publishCalls, outcome, reply, content, extracted,
           fbSolution, fbFiles, fbUpdates, fbCalls, ghApi, ghFiles, ffPc, ffI,
           ffNow, ffResp, ffRequests, ffSleeps, ffResult, pubNamespace,
           pubUpdates, pubSent, pubResp, pubResult, pubCalls, resObj, diag,
           fetchedFor, signalCh, stopCh, closes, sigPc, procMain,
           informerRun, handlerBusy, delivered, signalsSent, exit,
           repoTree, treePc, treeFiles, treeSent, useFallback, flagIn,
           flagOut, banner >>

\* the variables of the pipeline, and those of the single calls
pipeline == << aiMaxRetries, aiHealthCheck, nCallers, budget, mainpc, now,
               processedResources, processedMutex, endpointHealthy,
               lastHealthCheck, endpointHealthMutex, nEvents, pc, ev, caller,
               files, attempt, wait, lastResp, fileUpdates, log, gatePasses,
               fetchCalls, publishCalls, outcome >>
parsing == << reply, content, extracted >>
heuristic == << fbSolution, fbFiles, fbUpdates, fbCalls >>
fetcher == << ghApi, ghFiles >>
fileFetch == << ffPc, ffI, ffNow, ffResp, ffRequests, ffSleeps, ffResult >>
publisher == << pubNamespace, pubUpdates, pubSent, pubResp, pubResult,
               pubCalls >>
parse == << resObj, diag, fetchedFor >>
process == << signalCh, stopCh, closes, sigPc, procMain, informerRun,
             handlerBusy, delivered, signalsSent, exit >>
others == << fileFetch, publisher, parse, process >>
tree == << repoTree, treePc, treeFiles, treeSent >>
flag == << useFallback, flagIn, flagOut, banner >>
late == << tree, flag >>
units == << parsing, heuristic, fetcher, others, late >>

config == << aiMaxRetries, aiHealthCheck, nCallers, budget >>
gate == << processedResources, processedMutex >>
health == << endpointHealthy, lastHealthCheck, endpointHealthMutex >>
aiLocals == << attempt, wait, lastResp, fileUpdates >>
history == << gatePasses, fetchCalls, publishCalls, outcome >>

Runs == 1..MaxEvents
Callers == {1, 2}
RetryConfigs == {1, DefaultMaxRetries}

ZeroTime == [set |-> FALSE, at |-> 0]
\* stages: the stages entered; fetched: "no", "ok" or "err"; aiReqs: the
\* chat/completions requests of the engine call in progress; fellBack: the
\* engine ran the local heuristic; remediated/aiErr: the engine returned, and
\* whether with an error; pubs: publish requests; result: how the run ended;
\* verdict: what checkAIEndpointHealth answered to the engine ("none" when it
\* was not asked); probed: the status of the probe it made, -1 for no probe
EmptyLog == [stages |-> << >>, result |-> "", fetched |-> "no", aiReqs |-> 0,
             fellBack |-> FALSE, remediated |-> FALSE, aiErr |-> FALSE,
             pubs |-> 0, verdict |-> "none", probed |-> -1]

\* the process after its package-level variables are set, in an environment
\* that calls back on `callers` goroutines and sends `events` watch events
Start(callers, retries, events) ==
  /\ aiMaxRetries \in retries
  /\ aiHealthCheck \in BOOLEAN
  /\ nCallers = callers
  /\ budget = events
  /\ mainpc = "start"
  /\ now = 0
  /\ processedResources = << >>
  /\ processedMutex = 0
  /\ endpointHealthy = FALSE
  /\ lastHealthCheck = ZeroTime
  /\ endpointHealthMutex = 0
  /\ nEvents = 0
  /\ pc = [r \in Runs |-> "unborn"]
  /\ ev = [r \in Runs |-> NoEvent]
  /\ caller = [r \in Runs |-> 0]
  /\ files = [r \in Runs |-> NoFiles]
  /\ attempt = [r \in Runs |-> 0]
  /\ wait = [r \in Runs |-> 0]
  /\ lastResp = [r \in Runs |-> NoResponse]
  /\ fileUpdates = [r \in Runs |-> {}]
  /\ log = [r \in Runs |-> EmptyLog]
  /\ gatePasses = [i \in Identities |-> 0]
  /\ fetchCalls = [i \in Identities |-> 0]
  /\ publishCalls = [i \in Identities |-> 0]
  /\ outcome = [i \in Identities |-> "none"]

\* a call that was not made, and what a call returns
NotCalled == [called |-> FALSE, err |-> FALSE, updates |-> << >>]
Failed == [called |-> TRUE, err |-> TRUE, updates |-> << >>]
Returned(updates) == [called |-> TRUE, err |-> FALSE, updates |-> updates]

NoReply == [pre |-> << >>, array |-> << >>, post |-> << >>]

ParsingIdle == reply = NoReply /\ content = << >> /\ extracted = NotCalled
HeuristicIdle ==
  /\ fbSolution = << >> /\ fbFiles = << >> /\ fbUpdates = {} /\ fbCalls = 0
NotFetched == [called |-> FALSE, err |-> "", files |-> << >>]
FetcherIdle == ghApi = << >> /\ ghFiles = NotFetched
FileFetchIdle ==
  /\ ffPc = "done" /\ ffI = 0 /\ ffNow = 0 /\ ffResp = << >>
  /\ ffRequests = 0 /\ ffSleeps = << >> /\ ffResult = << >>
NotPublished == [called |-> FALSE, err |-> "", body |-> << >>]
PublisherIdle ==
  /\ pubNamespace = << >> /\ pubUpdates = << >> /\ pubSent = << >>
  /\ pubResp = << >> /\ pubResult = NotPublished /\ pubCalls = 0
NoDiagnostic == [filled |-> FALSE, namespace |-> << >>, name |-> << >>,
                 error |-> << >>, solution |-> << >>]
NotFetchedFor == [called |-> FALSE, namespace |-> << >>]
ParseIdle ==
  resObj = << >> /\ diag = NoDiagnostic /\ fetchedFor = NotFetchedFor
Running == [ended |-> FALSE, status |-> 0, cutShort |-> 0]
ProcessIdle ==
  /\ signalCh = 0 /\ stopCh = "open" /\ closes = 0 /\ sigPc = "receive"
  /\ procMain = "setup" /\ informerRun = "no" /\ handlerBusy = FALSE
  /\ delivered = 0 /\ signalsSent = 0 /\ exit = Running
OthersIdle == FileFetchIdle /\ PublisherIdle /\ ParseIdle /\ ProcessIdle
TreeIdle ==
  repoTree = {} /\ treePc = "done" /\ treeFiles = {} /\ treeSent = {}
Processes == {1, 2}
NotRun == [requests |-> << >>, updates |-> {}, err |-> FALSE, ran |-> FALSE]
FlagIdle ==
  /\ useFallback = [p \in Processes |-> TRUE]
  /\ flagIn = [solution |-> "", files |-> NoFiles, health |-> "off",
               answers |-> << >>]
  /\ flagOut = [p \in Processes |-> NotRun]
  /\ banner = [p \in Processes |-> ""]
LateIdle == TreeIdle /\ FlagIdle

\* the controller with no watch event to come
PipelineIdle == Start(1, {DefaultMaxRetries}, 0) /\ aiHealthCheck

\* no call in progress but the one a specification is about
CoreIdle ==
  PipelineIdle /\ ParsingIdle /\ HeuristicIdle /\ FetcherIdle /\ LateIdle
core == << pipeline, parsing, heuristic, fetcher, late >>

\* the informer of client-go: one goroutine calls the handlers, in order
Init ==
  Start(1, RetryConfigs, MaxEvents) /\ ParsingIdle /\ HeuristicIdle /\ FetcherIdle
  /\ OthersIdle /\ LateIdle

\* an event source that calls back on two goroutines at once
InitConcurrent ==
  Start(2, {1}, 2) /\ ParsingIdle /\ HeuristicIdle /\ FetcherIdle
  /\ OthersIdle /\ LateIdle

\* one diagnostic, every configured attempt count up to MaxRetries
InitEngine ==
  Start(1, 0..MaxRetries, 1) /\ ParsingIdle /\ HeuristicIdle /\ FetcherIdle
  /\ OthersIdle /\ LateIdle

\* ------------------------------------------------------------ small helpers
\* a lock that excludes nobody
MutexNeverHeld(m) == TRUE

\* sync.Mutex: Lock returns only when nobody holds the mutex
MutexFree(m) == m = 0

\* a lookup that never finds the mark
NeverProcessed(p, id) == FALSE

\* if processed, exists := processedResources[resourceID]; exists && processed
AlreadyProcessed(p, id) == id \in DOMAIN p /\ p[id]

\* a gate that lets the run pass and leaves no mark
MarkNothing(p, id) == p

\* processedResources[resourceID] = true
MarkProcessed(p, id) ==
  [k \in (DOMAIN p) \cup {id} |-> IF k = id THEN TRUE ELSE p[k]]

\* an UpdateFunc that does not compare the versions
AlwaysChanged(old, new) == TRUE

\* UpdateFunc: if oldVersion != newVersion
VersionChanged(old, new) == old # new

\* callbacks that start handleResult as a task of its own and return at once
NeverInCallback(g) == FALSE

\* AddFunc/UpdateFunc call handleResult and return when it returns: an
\* informer goroutine delivers no event while a callback it invoked runs
InCallback(g) == \E r \in Runs : caller[r] = g /\ pc[r] \notin {"unborn", "finished"}

\* time.Since(lastHealthCheck) < time.Minute, for a non-zero lastHealthCheck
HealthFresh == lastHealthCheck.set /\ now - lastHealthCheck.at < Minute

Stage(r, s) == [log[r] EXCEPT !.stages = Append(@, s)]
Verdict(l, healthy) ==
  [l EXCEPT !.verdict = IF healthy THEN "healthy" ELSE "unhealthy"]
Ends(l, res) == [l EXCEPT !.result = res]

\* ------------------------------------------------------------------- main
\* main before informer.Run: the initial health check when health checking
\* is enabled (one probe, `ok` is its verdict), then the informer starts.
StartInformer(ok) ==
  /\ mainpc = "start"
  /\ mainpc' = "running"
  /\ IF aiHealthCheck
     THEN /\ endpointHealthy' = ok
          /\ lastHealthCheck' = [set |-> TRUE, at |-> now]
     ELSE UNCHANGED << endpointHealthy, lastHealthCheck >>
  /\ UNCHANGED << units, config, now, gate, endpointHealthMutex, nEvents, pc, ev,
                  caller, files, aiLocals, log, history >>

Tick ==
  /\ now < MaxTime
  /\ now' = now + 1
  /\ UNCHANGED << units, config, mainpc, gate, health, nEvents, pc, ev, caller,
                  files, aiLocals, log, history >>

\* -------------------------------------------------------- informer callbacks
\* AddFunc / UpdateFunc, invoked by informer goroutine g with event e.  An
\* update whose resourceVersion did not change returns at once; every other
\* event enters handleResult, which runs inside the callback.
Deliver(g, e) ==
  LET r == nEvents + 1
      enters == e.type = "add" \/ VersionChanged(e.oldVersion, e.newVersion)
  IN /\ mainpc = "running"
     /\ nEvents < budget
     /\ g \in 1..nCallers
     /\ ~InCallback(g)
     /\ \A h \in 1..(g - 1) : InCallback(h)   \* goroutines are alike
     /\ nEvents' = r
     /\ ev' = [ev EXCEPT ![r] = e]
     /\ caller' = [caller EXCEPT ![r] = g]
     /\ pc' = [pc EXCEPT ![r] = IF enters THEN "lock" ELSE "done"]
     /\ log' = [log EXCEPT ![r] =
                  IF enters THEN EmptyLog ELSE Ends(EmptyLog, "skipped-version")]
     /\ UNCHANGED << units, config, mainpc, now, gate, health, files, aiLocals,
                     history >>

\* ------------------------------------------------------------ the dedup gate
\* processedMutex.Lock()
GateLock(r) ==
  /\ pc[r] = "lock"
  /\ MutexFree(processedMutex)
  /\ processedMutex' = r
  /\ pc' = [pc EXCEPT ![r] = "check"]
  /\ UNCHANGED << units, config, mainpc, now, processedResources, health, nEvents,
                  ev, caller, files, aiLocals, log, history >>

\* the lookup; an already processed identity unlocks and returns
GateCheck(r) ==
  /\ pc[r] = "check"
  /\ IF AlreadyProcessed(processedResources, ResourceID(ev[r]))
     THEN /\ processedMutex' = 0
          /\ pc' = [pc EXCEPT ![r] = "done"]
          /\ log' = [log EXCEPT ![r] = Ends(@, "skipped-processed")]
     ELSE /\ pc' = [pc EXCEPT ![r] = "mark"]
          /\ UNCHANGED << processedMutex, log >>
  /\ UNCHANGED << units, config, mainpc, now, processedResources, health, nEvents,
                  ev, caller, files, aiLocals, history >>

\* the mark, the unlock, and the extraction of the diagnostic
GateMark(r) ==
  LET id == ResourceID(ev[r])
  IN /\ pc[r] = "mark"
     /\ processedResources' = MarkProcessed(processedResources, id)
     /\ processedMutex' = 0
     /\ gatePasses' = [gatePasses EXCEPT ![id] = @ + 1]
     /\ log' = [log EXCEPT ![r].stages = @ \o <<"gate", "extract">>]
     /\ pc' = [pc EXCEPT ![r] = "fetch"]
     /\ UNCHANGED << units, config, mainpc, now, health, nEvents, ev, caller, files,
                     aiLocals, fetchCalls, publishCalls, outcome >>

\* ------------------------------------------------------------ source fetcher
\* a handleResult that goes on after a fetch error
IgnoresFetchError(res) == "ai_start"

\* handleResult after fetchGitHubFiles: an error or an empty map ends the run
AfterFetch(res) ==
  IF res.err THEN "done"
  ELSE IF Cardinality(DOMAIN res.files) = 0 THEN "done"
  ELSE "ai_start"

Fetch(r, res) ==
  LET id == ResourceID(ev[r])
      next == AfterFetch(res)
  IN /\ pc[r] = "fetch"
     /\ fetchCalls' = [fetchCalls EXCEPT ![id] = @ + 1]
     /\ files' = [files EXCEPT ![r] = IF next = "done" THEN NoFiles
                                      ELSE res.files]
     /\ pc' = [pc EXCEPT ![r] = next]
     /\ log' = [log EXCEPT ![r] =
          [@ EXCEPT !.stages = Append(@, "fetch"),
                    !.fetched = IF res.err THEN "err" ELSE "ok",
                    !.result = IF next = "done" THEN "fetch-failed" ELSE @]]
     /\ outcome' = IF next = "done"
                   THEN [outcome EXCEPT ![id] = "fetch-failed"] ELSE outcome
     /\ UNCHANGED << units, config, mainpc, now, gate, health, nEvents, ev, caller,
                     aiLocals, gatePasses, publishCalls >>

\* -------------------------------------------------------- remediation engine
\* return generateLocalFallbackResponse(solution, files), nil
FallbackReturn(solution, fs) ==
  [updates |-> generateLocalFallbackResponse(solution, fs), err |-> FALSE]

\* an engine that hands the extraction error to its caller
ExtractPropagates(resp, solution, fs) ==
  IF ExtractFails(resp) THEN [updates |-> {}, err |-> TRUE]
  ELSE [updates |-> resp.updates, err |-> FALSE]

\* after the loop, with a response: the extracted updates, or the fallback
\* when extractFileUpdatesFromResponse fails
ExtractReturn(resp, solution, fs) ==
  IF ExtractFails(resp) THEN FallbackReturn(solution, fs)
  ELSE [updates |-> resp.updates, err |-> FALSE]

\* a handleResult that fetches again when the engine proposed nothing
RefetchWhenEmpty(ret) ==
  IF ret.err THEN "done"
  ELSE IF Cardinality(ret.updates) > 0 THEN "publish"
  ELSE "fetch"

\* handleResult after sendToAIEndpoint: an error ends the run, updates go to
\* the publisher, no updates end the run
AfterRemediation(ret) ==
  IF ret.err THEN "done"
  ELSE IF Cardinality(ret.updates) > 0 THEN "publish"
  ELSE "done"

\* sendToAIEndpoint returns ret to handleResult, which goes on at once; l is
\* the log of the invocation at that point.
Returns(r, ret, l) ==
  LET id == ResourceID(ev[r])
      next == AfterRemediation(ret)
      res == IF ret.err THEN "ai-error" ELSE "no-updates"
  IN /\ pc' = [pc EXCEPT ![r] = next]
     /\ fileUpdates' = [fileUpdates EXCEPT ![r] =
                          IF next = "publish" THEN ret.updates ELSE {}]
     /\ files' = [files EXCEPT ![r] = NoFiles]
     /\ attempt' = [attempt EXCEPT ![r] = 0]
     /\ wait' = [wait EXCEPT ![r] = 0]
     /\ lastResp' = [lastResp EXCEPT ![r] = NoResponse]
     /\ log' = [log EXCEPT ![r] =
          [l EXCEPT !.remediated = TRUE,
                    !.aiErr = ret.err,
                    !.aiReqs = 0,
                    !.result = IF next = "done" THEN res ELSE @]]
     /\ outcome' = IF next = "done" THEN [outcome EXCEPT ![id] = res]
                   ELSE outcome

FellBack(l) == [l EXCEPT !.fellBack = TRUE]

\* answers to the probe GET {base}/models: 0 is a transport failure
ProbeResponses == {0, 204, 302}

\* a probe that takes every status below 400 for healthy
ProbeVerdictLenient(status) == status # 0 /\ status < HttpErrorLow

\* checkAIEndpointHealth: healthy is a response with a 2xx status
ProbeVerdict(status) == status # 0 /\ IsSuccessStatus(status)

\* an engine that goes to the endpoint whatever the verdict
NeverSkipsEndpoint(enabled, healthy) == FALSE

\* sendToAIEndpoint: if aiHealthCheck and checkAIEndpointHealth answers
\* false, return the local fallback response
SkipsEndpoint(enabled, healthy) == enabled /\ ~healthy

\* sendToAIEndpoint up to the health gate: with health checking enabled,
\* checkAIEndpointHealth takes endpointHealthMutex and answers from the cache
\* when it is fresh; otherwise it keeps the mutex and probes.
AIStart(r) ==
  LET entered == Stage(r, "remediate")
      asked == IF aiHealthCheck THEN Verdict(entered, endpointHealthy)
               ELSE entered
  IN
  /\ pc[r] = "ai_start"
  /\ aiHealthCheck => MutexFree(endpointHealthMutex)
  /\ IF aiHealthCheck /\ ~HealthFresh
     THEN /\ endpointHealthMutex' = r
          /\ pc' = [pc EXCEPT ![r] = "probe"]
          /\ log' = [log EXCEPT ![r] = entered]
          /\ UNCHANGED << aiLocals, files, outcome >>
     ELSE /\ UNCHANGED endpointHealthMutex
          /\ IF SkipsEndpoint(aiHealthCheck, endpointHealthy)
             THEN Returns(r, FallbackReturn(ev[r].solution, files[r]),
                          FellBack(asked))
             ELSE /\ pc' = [pc EXCEPT ![r] = "attempt"]
                  /\ log' = [log EXCEPT ![r] = asked]
                  /\ UNCHANGED << aiLocals, files, outcome >>
  /\ UNCHANGED << units, config, mainpc, now, gate, endpointHealthy, lastHealthCheck,
                  nEvents, ev, caller, gatePasses, fetchCalls, publishCalls >>

\* the probe GET {base}/models is answered with `status`; the cache is
\* refreshed, the mutex released, and the engine goes on with the verdict
Probe(r, status) ==
  LET ok == ProbeVerdict(status)
      asked == Verdict([log[r] EXCEPT !.probed = status], ok)
  IN
  /\ pc[r] = "probe"
  /\ endpointHealthy' = ok
  /\ lastHealthCheck' = [set |-> TRUE, at |-> now]
  /\ endpointHealthMutex' = 0
  /\ IF SkipsEndpoint(aiHealthCheck, ok)
     THEN Returns(r, FallbackReturn(ev[r].solution, files[r]),
                  FellBack(asked))
     ELSE /\ pc' = [pc EXCEPT ![r] = "attempt"]
          /\ log' = [log EXCEPT ![r] = asked]
          /\ UNCHANGED << aiLocals, files, outcome >>
  /\ UNCHANGED << units, config, mainpc, now, gate, nEvents, ev, caller,
                  gatePasses, fetchCalls, publishCalls >>

\* head of the retry loop: out of attempts, or the backoff sleep and the
\* start of tryAIEndpoint, which reads endpointHealthy under the mutex (and
\* tests the connection with a HEAD request when it reads false)
Attempt(r) ==
  /\ pc[r] = "attempt"
  /\ IF attempt[r] >= aiMaxRetries
     THEN Returns(r, FallbackReturn(ev[r].solution, files[r]),
                  FellBack(log[r]))
     ELSE /\ MutexFree(endpointHealthMutex)
          /\ wait' = [wait EXCEPT ![r] =
                        IF attempt[r] > 0 THEN Backoff(attempt[r]) ELSE 0]
          /\ lastResp' = [lastResp EXCEPT ![r] = NoResponse]
          /\ pc' = [pc EXCEPT ![r] = "send"]
          /\ UNCHANGED << attempt, fileUpdates, log, files, outcome >>
  /\ UNCHANGED << units, config, mainpc, now, gate, health, nEvents, ev, caller,
                  gatePasses, fetchCalls, publishCalls >>

\* tryAIEndpoint: the chat/completions request and its answer resp.  A
\* transport failure ends in updateEndpointHealth(false), a decoded answer in
\* updateEndpointHealth(true), both under endpointHealthMutex.  Then the loop:
\* a decoded answer breaks out of it and its updates are extracted; a
\* failed attempt falls back at once or goes round again.
Send(r, resp) ==
  LET msg == AttemptError(resp)
      sent == [log[r] EXCEPT !.aiReqs = @ + 1]
      updatesHealth == resp.status = 0 \/ msg = << >>
  IN /\ pc[r] = "send"
     /\ updatesHealth => MutexFree(endpointHealthMutex)
     /\ IF updatesHealth
        THEN /\ endpointHealthy' = (resp.status # 0)
             /\ lastHealthCheck' = [set |-> TRUE, at |-> now]
        ELSE UNCHANGED << endpointHealthy, lastHealthCheck >>
     /\ IF msg = << >>
        THEN Returns(r, ExtractReturn(resp, ev[r].solution, files[r]),
                     IF ExtractFails(resp) THEN FellBack(sent) ELSE sent)
        ELSE IF NonRetryable(msg)
        THEN Returns(r, FallbackReturn(ev[r].solution, files[r]),
                     FellBack(sent))
        ELSE /\ pc' = [pc EXCEPT ![r] = "attempt"]
             /\ attempt' = [attempt EXCEPT ![r] = @ + 1]
             /\ lastResp' = [lastResp EXCEPT ![r] = resp]
             /\ log' = [log EXCEPT ![r] = sent]
             /\ UNCHANGED << wait, fileUpdates, files, outcome >>
     /\ UNCHANGED << units, config, mainpc, now, gate, endpointHealthMutex, nEvents,
                     ev, caller, gatePasses, fetchCalls, publishCalls >>

\* ------------------------------------------------------------------ publisher
\* answers to POST /pull_requests: 0 is a transport failure
PublishResponses == {0, 201, 302, 500}

\* sendToGHService: error on a transport failure or a status of 400 or more
PublishError(status) == status = 0 \/ status >= HttpErrorLow

\* a handleResult that publishes again after a failed publish
RetryFailedPublish(failed) == IF failed THEN "publish" ELSE "done"

\* handleResult after sendToGHService: the result is logged, the run ends
AfterPublish(failed) == "done"

Publish(r, status) ==
  LET id == ResourceID(ev[r])
      res == IF PublishError(status) THEN "publish-failed" ELSE "published"
  IN /\ pc[r] = "publish"
     /\ publishCalls' = [publishCalls EXCEPT ![id] = @ + 1]
     /\ pc' = [pc EXCEPT ![r] = AfterPublish(PublishError(status))]
     /\ fileUpdates' = [fileUpdates EXCEPT ![r] = {}]
     /\ log' = [log EXCEPT ![r] =
          [@ EXCEPT !.stages = Append(@, "publish"),
                    !.pubs = @ + 1,
                    !.result = res]]
     /\ outcome' = [outcome EXCEPT ![id] = res]
     /\ UNCHANGED << units, config, mainpc, now, gate, health, nEvents, ev, caller,
                     files, attempt, wait, lastResp, gatePasses, fetchCalls >>

\* handleResult and the callback return: the informer goroutine is free
Return(r) ==
  /\ pc[r] = "done"
  /\ pc' = [pc EXCEPT ![r] = "finished"]
  /\ ev' = [ev EXCEPT ![r] = NoEvent]
  /\ caller' = [caller EXCEPT ![r] = 0]
  /\ log' = [log EXCEPT ![r] = EmptyLog]
  /\ UNCHANGED << units, config, mainpc, now, gate, health, nEvents, files,
                  aiLocals, history >>

\* ------------------------------------------------------------ specification
Next ==
  \/ \E status \in ProbeResponses : StartInformer(ProbeVerdict(status))
  \/ Tick
  \/ \E g \in Callers, e \in Events : Deliver(g, e)
  \/ \E r \in Runs : GateLock(r)
  \/ \E r \in Runs : GateCheck(r)
  \/ \E r \in Runs : GateMark(r)
  \/ \E r \in Runs, res \in FetchResults : Fetch(r, res)
  \/ \E r \in Runs : AIStart(r)
  \/ \E r \in Runs, status \in ProbeResponses : Probe(r, status)
  \/ \E r \in Runs : Attempt(r)
  \/ \E r \in Runs, resp \in AIResponses : Send(r, resp)
  \/ \E r \in Runs, status \in PublishResponses : Publish(r, status)
  \/ \E r \in Runs : Return(r)

Spec == Init /\ [][Next]_vars
SpecConcurrent == InitConcurrent /\ [][Next]_vars
SpecEngine == InitEngine /\ [][Next]_vars

\* ---------------------------------------------------------- response parsing
\* The text of choices[0].message.content, token by token: "[", "]" and ","
\* are the characters, "w" is a stretch of prose without brackets, "{a}" and
\* "{b}" are JSON objects with a path and a content.
Objects == {"{a}", "{b}"}
ProseTokens == {"w", "[", "]"}

\* json.Unmarshal of one object into a FileUpdate
DecodeObject(o) ==
  IF o = "{a}" THEN [path |-> "deployment.yaml", content |-> "patched"]
  ELSE [path |-> "service.yaml", content |-> "rewritten"]

SeqsUpTo(S, n) == UNION { [1..k -> S] : k \in 0..n }

\* the JSON text of an array of objects
RenderArray(objs) ==
  <<"[">> \o
  [i \in 1..(IF Len(objs) = 0 THEN 0 ELSE 2 * Len(objs) - 1) |->
     IF i % 2 = 1 THEN objs[(i + 1) \div 2] ELSE ","] \o
  <<"]">>

\* the replies of the model: prose, an array of updates, prose
Replies ==
  [pre : SeqsUpTo(ProseTokens, MaxProse), array : SeqsUpTo(Objects, MaxArray),
   post : SeqsUpTo(ProseTokens, MaxProse)]

ReplyText(rp) == rp.pre \o RenderArray(rp.array) \o rp.post

\* strings.Index and strings.LastIndex for one character, counted from 1;
\* 0 where Go answers -1
Index(s, c) ==
  IF \E i \in 1..Len(s) : s[i] = c
  THEN CHOOSE i \in 1..Len(s) : s[i] = c /\ \A j \in 1..(i - 1) : s[j] # c
  ELSE 0

\* an extraction that stops at the first closing bracket
IndexOfFirst(s, c) == Index(s, c)

LastIndex(s, c) ==
  IF \E i \in 1..Len(s) : s[i] = c
  THEN CHOOSE i \in 1..Len(s) : s[i] = c /\ \A j \in (i + 1)..Len(s) : s[j] # c
  ELSE 0

\* json.Unmarshal(text, &fileUpdates) for a slice of FileUpdate: the text
\* has to be one array of objects (or null)
Unmarshal(text) ==
  LET n == Len(text)
      inner == SubSeq(text, 2, n - 1)
      flat == /\ n >= 2 /\ text[1] = "[" /\ text[n] = "]"
              /\ (Len(inner) = 0 \/ Len(inner) % 2 = 1)
              /\ \A i \in 1..Len(inner) :
                   IF i % 2 = 1 THEN inner[i] \in Objects ELSE inner[i] = ","
  IN IF text = <<"null">> THEN Returned(<< >>)
     ELSE IF flat
     THEN Returned([k \in 1..((Len(inner) + 1) \div 2) |->
                      DecodeObject(inner[2 * k - 1])])
     ELSE Failed

\* extractFileUpdatesFromResponse, from the content on: the text from the
\* first "[" to the last "]", or the whole content, is unmarshalled
extractFileUpdatesFromResponse(text) ==
  LET startIdx == Index(text, "[")
      endIdx == LastIndex(text, "]")
      jsonContent == IF startIdx >= 1 /\ endIdx > startIdx
                     THEN SubSeq(text, startIdx, endIdx)
                     ELSE text
  IN Unmarshal(jsonContent)

InitParsing ==
  /\ PipelineIdle /\ HeuristicIdle /\ FetcherIdle /\ OthersIdle /\ LateIdle
  /\ reply \in Replies
  /\ content = ReplyText(reply)
  /\ extracted = NotCalled

Extract ==
  /\ ~extracted.called
  /\ extracted' = extractFileUpdatesFromResponse(content)
  /\ UNCHANGED << pipeline, reply, content, heuristic, fetcher, others, late >>

NextParsing == Extract

SpecParsing == InitParsing /\ [][NextParsing]_vars

\* ------------------------------------------- the fallback heuristic, on text
\* The heuristic works on the text of the solution and of the files.  A text
\* is a sequence of characters; the content of a file is the sequence of its
\* lines (strings.Split(content, "\n"), so a content that ends in a newline
\* has an empty last line), each line with its indentation, its key (the
\* text before the colon) and its value (the text after it, trimmed).
UpperChars == <<"A", "B", "C", "D", "E", "F", "G", "H", "I", "J", "K", "L", "M",
                "N", "O", "P", "Q", "R", "S", "T", "U", "V", "W", "X", "Y", "Z">>
LowerChars == <<"a", "b", "c", "d", "e", "f", "g", "h", "i", "j", "k", "l", "m",
                "n", "o", "p", "q", "r", "s", "t", "u", "v", "w", "x", "y", "z">>

ToLowerChar(c) ==
  IF \E i \in 1..26 : UpperChars[i] = c
  THEN LowerChars[CHOOSE i \in 1..26 : UpperChars[i] = c]
  ELSE c

\* strings.ToLower
ToLower(text) == [i \in 1..Len(text) |-> ToLowerChar(text[i])]

OomKilledText == <<"o", "o", "m", "k", "i", "l", "l", "e", "d">>
OutOfMemoryText ==
  <<"o", "u", "t", " ", "o", "f", " ", "m", "e", "m", "o", "r", "y">>
OomText == <<"o", "o", "m">>

\* the solution halves of the diagnostics
FbSolutions ==
  { <<"O", "O", "M", "K", "i", "l", "l", "e", "d">>,
    <<"O", "u", "t", " ", "O", "f", " ", "M", "e", "m", "o", "r", "y">>,
    <<"p", "o", "d", " ", "o", "o", "m", "k", "i", "l", "l", "e", "d">>,
    <<"O", "O", "M">>,
    <<"c", "r", "a", "s", "h">>,
    <<"o", "u", "t", " ", "o", "f", " ", " ", "m", "e", "m", "o", "r", "y">> }

\* a check that takes every mention of "oom" for an out-of-memory kill
isOOMLoose(solution) == Contains(ToLower(solution), OomText)

\* isOOM := the lowered solution contains "oomkilled" or "out of memory"
isOOM(solution) ==
  \/ Contains(ToLower(solution), OomKilledText)
  \/ Contains(ToLower(solution), OutOfMemoryText)

Line(indent, key, value) == [indent |-> indent, key |-> key, value |-> value]
BlankLine == Line(0, "", << >>)

DeploymentText == <<"D", "e", "p", "l", "o", "y", "m", "e", "n", "t">>
ServiceText == <<"S", "e", "r", "v", "i", "c", "e">>
WebText == <<"w", "e", "b">>
DefaultLimit == <<"2", "5", "6", "M", "i">>
NoMemoryLine == <<"absent">>

\* the values of resources.limits.memory in the files
MemoryValues ==
  { << >>, <<"6", "M", "i">>, <<"6", "3", "M", "i">>, <<"6", "4", "M", "i">>,
    <<"1", "2", "8", "M", "i">>, <<"1", "G", "i">>, <<"6", "5">>,
    DefaultLimit }

\* how a file goes on after the limits: with a newline and nothing more, with
\* nothing (the last line has no newline), or with the requests
Endings == {"newline", "eof", "requests"}
\* or, the limits having no requests after them, with the overhead of the
\* pod, a sibling of the containers
OverheadEnding == "overhead"
OverheadMemory == <<"3", "2", "M", "i">>

\* a manifest of the given kind, with or without a metadata.name, with the
\* given resources.limits.memory (or none)
Manifest(kind, named, mem, ending) ==
  << Line(0, "kind", kind), Line(0, "metadata", << >>) >> \o
  (IF named THEN << Line(2, "name", WebText) >> ELSE << >>) \o
  << Line(8, "resources", << >>), Line(10, "limits", << >>),
     Line(12, "cpu", <<"1">>) >> \o
  (IF mem = NoMemoryLine THEN << >> ELSE << Line(12, "memory", mem) >>) \o
  (CASE ending = "newline" -> << BlankLine >>
     [] ending = "eof" -> << >>
     [] ending = "requests" ->
          << Line(10, "requests", << >>), Line(12, "memory", <<"3", "2", "M", "i">>),
             BlankLine >>
     [] ending = OverheadEnding ->
          << Line(4, "overhead", << >>), Line(6, "memory", OverheadMemory),
             BlankLine >>)

Manifests ==
  { Manifest(kind, named, mem, ending) :
      kind \in {DeploymentText, ServiceText}, named \in BOOLEAN,
      mem \in MemoryValues \cup {NoMemoryLine},
      ending \in Endings \cup {OverheadEnding} }

\* the files handed to the heuristic: one manifest under one name
FbFileSets ==
  { [n \in {name} |-> m] : name \in Paths, m \in Manifests }

HasKey(doc, key) == \E i \in 1..Len(doc) : doc[i].key = key

\* strings.Index for the first line, from line `from` on, that holds the key
FirstWithKey(doc, key, from) ==
  IF \E i \in from..Len(doc) : doc[i].key = key
  THEN CHOOSE i \in from..Len(doc) :
         /\ doc[i].key = key
         /\ \A j \in from..(i - 1) : doc[j].key # key
  ELSE 0

\* the value on line i as the heuristic reads it: the text up to the next
\* newline, trimmed; empty when endIdx > 0 fails, that is when nothing
\* stands between the colon and the newline or when no newline follows
ValueUpToNewline(doc, i) ==
  IF i >= 1 /\ i < Len(doc) THEN doc[i].value ELSE << >>

\* strings.Contains(content, "kind: Deployment")
isDeployment(doc) ==
  \E i \in 1..Len(doc) :
    /\ doc[i].key = "kind"
    /\ Len(doc[i].value) >= Len(DeploymentText)
    /\ SubSeq(doc[i].value, 1, Len(DeploymentText)) = DeploymentText

deploymentName(doc) ==
  ValueUpToNewline(doc, FirstWithKey(doc, "name", 1))

\* the first "memory:" after the first "limits:", in a content that holds
\* "resources"
memoryLimit(doc) ==
  LET limitsIdx == FirstWithKey(doc, "limits", 1)
      memIdx == IF limitsIdx = 0 THEN 0
                ELSE FirstWithKey(doc, "memory", limitsIdx)
  IN IF HasKey(doc, "resources") THEN ValueUpToNewline(doc, memIdx)
     ELSE << >>

IsDigit(c) == \E i \in 1..10 : DigitChars[i] = c
DigitValue(c) == (CHOOSE i \in 1..10 : DigitChars[i] = c) - 1

\* the length of numPart: the digits before the first other character
NumLen(text) ==
  IF \E i \in 1..Len(text) : ~IsDigit(text[i])
  THEN (CHOOSE i \in 1..Len(text) :
          ~IsDigit(text[i]) /\ \A j \in 1..(i - 1) : IsDigit(text[j])) - 1
  ELSE Len(text)

\* strconv.Atoi of a text of digits; the empty text leaves currentMem at 0
RECURSIVE Atoi(_)
Atoi(digits) ==
  IF Len(digits) = 0 THEN 0
  ELSE Atoi(SubSeq(digits, 1, Len(digits) - 1)) * 10
       + DigitValue(digits[Len(digits)])

\* a heuristic that leaves a limit at or above the threshold as it is
NewLimitKeepsLarge(limit) ==
  IF Atoi(SubSeq(limit, 1, NumLen(limit))) < MemoryThreshold
  THEN DefaultLimit ELSE limit

\* the limit to write for the limit read: 256Mi for none or a small one,
\* else int(float64(currentMem) * 1.5) with the unit
NewLimit(limit) ==
  LET currentMem == Atoi(SubSeq(limit, 1, NumLen(limit)))
      unit == SubSeq(limit, NumLen(limit) + 1, Len(limit))
  IN IF currentMem = 0 \/ currentMem < MemoryThreshold THEN DefaultLimit
     ELSE Itoa((currentMem * 3) \div 2) \o unit

\* updateMemoryLimits, from line i on
RECURSIVE UpdateFrom(_, _, _, _, _)
UpdateFrom(lines, i, inResources, inLimits, newLimit) ==
  IF i > Len(lines) THEN lines
  ELSE IF lines[i].key = "resources"
  THEN UpdateFrom(lines, i + 1, TRUE, inLimits, newLimit)
  ELSE IF inResources /\ lines[i].indent = 0 /\ lines[i].key # ""
  THEN UpdateFrom(lines, i + 1, FALSE, FALSE, newLimit)
  ELSE IF inResources /\ lines[i].key = "limits"
  THEN UpdateFrom(lines, i + 1, inResources, TRUE, newLimit)
  ELSE IF inLimits /\ lines[i].key = "requests"
  THEN UpdateFrom(lines, i + 1, inResources, FALSE, newLimit)
  ELSE IF inLimits /\ lines[i].key = "memory"
  THEN UpdateFrom([lines EXCEPT ![i].value = newLimit], i + 1, inResources,
                  inLimits, newLimit)
  ELSE UpdateFrom(lines, i + 1, inResources, inLimits, newLimit)

updateMemoryLimits(doc, newLimit) ==
  UpdateFrom(doc, 1, FALSE, FALSE, newLimit)

\* the content the heuristic proposes for a Deployment file
updatedContent(doc) ==
  updateMemoryLimits(doc, NewLimit(memoryLimit(doc)))

\* generateLocalFallbackResponse on the text of the solution and the files
LocalFallbackResponse(solution, fs) ==
  IF ~isOOM(solution) THEN {}
  ELSE { [path |-> n, content |-> updatedContent(fs[n])] :
           n \in { q \in DOMAIN fs :
                     /\ HasYamlSuffix(q)
                     /\ isDeployment(fs[q])
                     /\ deploymentName(fs[q]) # << >>
                     /\ updatedContent(fs[q]) # fs[q] } }

\* the files after the updates were merged
ApplyUpdates(fs, updates) ==
  [n \in DOMAIN fs |->
     IF \E u \in updates : u.path = n
     THEN (CHOOSE u \in updates : u.path = n).content
     ELSE fs[n]]

InitHeuristic ==
  /\ PipelineIdle /\ ParsingIdle /\ FetcherIdle /\ OthersIdle /\ LateIdle
  /\ fbSolution \in FbSolutions
  /\ fbFiles \in FbFileSets
  /\ fbUpdates = {}
  /\ fbCalls = 0

\* the engine falls back for a diagnostic
Fallback ==
  /\ fbCalls = 0
  /\ fbUpdates' = LocalFallbackResponse(fbSolution, fbFiles)
  /\ fbCalls' = 1
  /\ UNCHANGED << pipeline, parsing, fbSolution, fbFiles, fetcher, others, late >>

\* the updates were merged, the same diagnostic comes again and the engine
\* falls back again
FallbackAgain ==
  /\ fbCalls >= 1 /\ fbCalls < MaxCalls
  /\ fbUpdates # {}
  /\ fbFiles' = ApplyUpdates(fbFiles, fbUpdates)
  /\ fbUpdates' = LocalFallbackResponse(fbSolution, fbFiles')
  /\ fbCalls' = fbCalls + 1
  /\ UNCHANGED << pipeline, parsing, fbSolution, fetcher, others, late >>

NextHeuristic == Fallback \/ FallbackAgain

SpecHeuristic == InitHeuristic /\ [][NextHeuristic]_vars

\* ------------------------------------------- the fetcher, request by request
\* Paths of the contents API are sequences of segments.  The repository has
\* apps/ns with the file deployment.yaml and the directory sub, which holds
\* notes.txt; what a request is answered is up to the API.
RootDir == <<"apps", "ns">>
SubDir == RootDir \o <<"sub">>
FileA == [type |-> "file", name |-> "deployment.yaml",
          path |-> RootDir \o <<"deployment.yaml">>]
DirSub == [type |-> "dir", name |-> "sub", path |-> SubDir]
FileB == [type |-> "file", name |-> "notes.txt",
          path |-> SubDir \o <<"notes.txt">>]

\* a response: its status (0: no response, the request failed), whether it
\* carries X-RateLimit-Remaining: 0, what its body decodes to ("array": a
\* list of items, "object": one item, "content": one item with base64
\* content, "none"), and the items of the list
Response(status, limited, body, items) ==
  [status |-> status, limited |-> limited, body |-> body, items |-> items]
NoAnswer == Response(0, FALSE, "none", << >>)
RateLimited == Response(StatusForbidden, TRUE, "none", << >>)
Forbidden == Response(StatusForbidden, FALSE, "none", << >>)
NotFound == Response(StatusNotFound, FALSE, "none", << >>)
ServerError == Response(500, FALSE, "none", << >>)
FileOK == Response(StatusOK, FALSE, "content", << >>)
FileEmpty == Response(StatusOK, FALSE, "object", << >>)

\* answers to the listing of apps/ns
RootListings ==
  { NoAnswer, RateLimited, Forbidden, NotFound, ServerError }
  \cup { Response(st, FALSE, "array", items) :
           st \in {StatusOK, 300},
           items \in { << >>, <<FileA>>, <<DirSub>>, <<FileA, DirSub>> } }
  \cup { Response(st, FALSE, "object", << >>) : st \in {StatusOK, 300} }

\* answers to the listing of apps/ns/sub
SubListings ==
  { NotFound, Response(StatusOK, FALSE, "array", << >>),
    Response(StatusOK, FALSE, "array", <<FileB>>) }

\* answers to the successive requests for one file
FileAnswers ==
  { <<FileOK>>, <<NotFound>>, <<NoAnswer>>, <<RateLimited, FileOK>>,
    <<RateLimited, RateLimited, FileOK>>,
    <<RateLimited, RateLimited, RateLimited>> }

\* answers to the request for apps/ns as a single file
SingleAnswers == { FileOK, NotFound, FileEmpty }

GhApis ==
  [root : RootListings, sub : SubListings, a : FileAnswers, b : FileAnswers,
   single : SingleAnswers]

ListingOf(api, dirPath) == IF dirPath = RootDir THEN api.root ELSE api.sub
AnswersOf(api, filePath) == IF filePath = FileA.path THEN api.a ELSE api.b
\* the decoded content of a file
ContentOf(filePath) == Repository[filePath[Len(filePath)]]

\* what the fetcher returns: the kind of its error ("" for none) and the files
FetchFailed(kind) == [called |-> TRUE, err |-> kind, files |-> << >>]
Fetched(fs) == [called |-> TRUE, err |-> "", files |-> fs]

\* strings.TrimPrefix(path, prefix + "/")
TrimPrefix(path, prefix) ==
  IF Len(prefix) <= Len(path) /\ SubSeq(path, 1, Len(prefix)) = prefix
  THEN SubSeq(path, Len(prefix) + 1, Len(path))
  ELSE path

\* files[key] = value
Put(fs, key, value) ==
  [k \in (DOMAIN fs) \cup {key} |-> IF k = key THEN value ELSE fs[k]]

\* fetchFileContent, the retry loop: the response it ends with after the
\* requests i+1, i+2, ...; a rate-limited response is followed by a sleep
\* and the next round
RECURSIVE FileLoop(_, _)
FileLoop(answers, i) ==
  LET resp == answers[IF i + 1 <= Len(answers) THEN i + 1 ELSE Len(answers)]
  IN IF resp.status # 0 /\ resp.status = StatusForbidden /\ resp.limited
        /\ i + 1 < FileMaxRetries
     THEN FileLoop(answers, i + 1)
     ELSE resp

\* fetchFileContent: the content, or an error
fetchFileContent(api, filePath) ==
  LET resp == FileLoop(AnswersOf(api, filePath), 0)
  IN IF resp.status = 0 \/ resp.status # StatusOK \/ resp.body # "content"
     THEN [err |-> TRUE, content |-> << >>]
     ELSE [err |-> FALSE, content |-> ContentOf(filePath)]

\* fetchSingleFile: the path is fetched as one file, and the decoded content
\* of the response is filed under the last segment of the path
fetchSingleFile(api, filePath) ==
  IF api.single.status = 0 THEN FetchFailed("transport")
  ELSE IF api.single.status # StatusOK THEN FetchFailed("api-error")
  ELSE IF api.single.body = "content"
  THEN Fetched(Put(<< >>, <<filePath[Len(filePath)]>>,
                   Repository["deployment.yaml"]))
  ELSE FetchFailed("no-content")

\* a traversal that reports an empty directory as a success
NeverEmpty(fs) == FALSE

\* if len(files) == 0: no files found
NoFilesFound(fs) == DOMAIN fs = {}

RECURSIVE fetchDirectoryContents(_, _)
RECURSIVE Collect(_, _, _, _, _)

\* a loop that gives up what it has found when a subdirectory fails
CollectStops(api, dirPath, items, i, fs) ==
  IF i > Len(items) THEN fs
  ELSE IF items[i].type = "dir"
  THEN LET subDirFiles == fetchDirectoryContents(api, items[i].path)
           rel == TrimPrefix(items[i].path, dirPath)
       IN IF subDirFiles.err # ""
          THEN << >>
          ELSE Collect(api, dirPath, items, i + 1,
                 [k \in (DOMAIN fs)
                        \cup { rel \o name : name \in DOMAIN subDirFiles.files } |->
                    IF \E name \in DOMAIN subDirFiles.files : k = rel \o name
                    THEN subDirFiles.files[
                           CHOOSE name \in DOMAIN subDirFiles.files : k = rel \o name]
                    ELSE fs[k]])
  ELSE LET fileContent == fetchFileContent(api, items[i].path)
           rel == TrimPrefix(items[i].path, dirPath)
           relativePath == IF rel = << >> THEN <<items[i].name>> ELSE rel
       IN IF fileContent.err
          THEN Collect(api, dirPath, items, i + 1, fs)
          ELSE Collect(api, dirPath, items, i + 1,
                       Put(fs, relativePath, fileContent.content))

\* the loop over the items of a listing, from item i on, with the files
\* found so far; a subdirectory or a file that fails is skipped
Collect(api, dirPath, items, i, fs) ==
  IF i > Len(items) THEN fs
  ELSE IF items[i].type = "dir"
  THEN LET subDirFiles == fetchDirectoryContents(api, items[i].path)
           rel == TrimPrefix(items[i].path, dirPath)
       IN IF subDirFiles.err # ""
          THEN Collect(api, dirPath, items, i + 1, fs)
          ELSE Collect(api, dirPath, items, i + 1,
                 [k \in (DOMAIN fs)
                        \cup { rel \o name : name \in DOMAIN subDirFiles.files } |->
                    IF \E name \in DOMAIN subDirFiles.files : k = rel \o name
                    THEN subDirFiles.files[
                           CHOOSE name \in DOMAIN subDirFiles.files : k = rel \o name]
                    ELSE fs[k]])
  ELSE LET fileContent == fetchFileContent(api, items[i].path)
           rel == TrimPrefix(items[i].path, dirPath)
           relativePath == IF rel = << >> THEN <<items[i].name>> ELSE rel
       IN IF fileContent.err
          THEN Collect(api, dirPath, items, i + 1, fs)
          ELSE Collect(api, dirPath, items, i + 1,
                       Put(fs, relativePath, fileContent.content))

\* fetchDirectoryContents: the listing request, the checks of its response,
\* the traversal of its items
fetchDirectoryContents(api, dirPath) ==
  LET resp == ListingOf(api, dirPath)
      fs == Collect(api, dirPath, resp.items, 1, << >>)
  IN IF resp.status = 0 THEN FetchFailed("transport")
     ELSE IF resp.status = StatusForbidden /\ resp.limited
     THEN FetchFailed("rate-limited")
     ELSE IF resp.status = StatusNotFound THEN FetchFailed("not-found")
     ELSE IF resp.status >= HttpErrorLow THEN FetchFailed("api-error")
     ELSE IF resp.body # "array" THEN fetchSingleFile(api, dirPath)
     ELSE IF NoFilesFound(fs) THEN FetchFailed("no-files")
     ELSE Fetched(fs)

\* fetchGitHubFiles: the files under apps/<namespace>
fetchGitHubFiles(api, namespace) ==
  fetchDirectoryContents(api, <<"apps", namespace>>)

InitFetcher ==
  /\ PipelineIdle /\ ParsingIdle /\ HeuristicIdle /\ OthersIdle /\ LateIdle
  /\ ghApi \in GhApis
  /\ ghFiles = NotFetched

FetchFiles ==
  /\ ~ghFiles.called
  /\ ghFiles' = fetchGitHubFiles(ghApi, "ns")
  /\ UNCHANGED << pipeline, parsing, heuristic, ghApi, others, late >>

NextFetcher == FetchFiles

SpecFetcher == InitFetcher /\ [][NextFetcher]_vars

\* ------------------------------------- fetchFileContent, request by request
\* Durations and the clock are counted in ticks; X-RateLimit-Reset is in
\* whole seconds, the clock is not.
Second == TicksPerSecond
FiveMinutes == 5 * 60 * Second

\* values of the header X-RateLimit-Reset: absent, not a number, a time long
\* past, and the second that comes d seconds after the current one
ResetAbsent == << >>
ResetGarbled == <<"s", "o", "o", "n">>
ResetPast == <<"-", "1">>
HintSeconds == {0, 1, 300, 301}
ResetHeaders(t) ==
  { ResetAbsent, ResetGarbled, ResetPast }
  \cup { Itoa((t \div Second) + d) : d \in HintSeconds }

\* strconv.ParseInt(text, 10, 64): an optional sign and at least one digit
ParseInt(text) ==
  LET signed == Len(text) > 0 /\ text[1] \in {"-", "+"}
      digits == IF signed THEN Tail(text) ELSE text
  IN IF Len(digits) = 0 \/ \E k \in 1..Len(digits) : ~IsDigit(digits[k])
     THEN [ok |-> FALSE, value |-> 0]
     ELSE [ok |-> TRUE,
           value |-> IF signed /\ text[1] = "-" THEN 0 - Atoi(digits)
                     ELSE Atoi(digits)]

\* a response to the request for the file: status 0 is a request that
\* failed, limited is X-RateLimit-Remaining: 0, body is what the body decodes
\* to ("content": base64 content, "object": none)
FileResponse(status, limited, reset, body) ==
  [status |-> status, limited |-> limited, reset |-> reset, body |-> body]

FileResponses(t) ==
  { FileResponse(0, FALSE, ResetAbsent, "none"),
    FileResponse(StatusOK, FALSE, ResetAbsent, "content"),
    FileResponse(StatusOK, FALSE, ResetAbsent, "object"),
    FileResponse(StatusNotFound, FALSE, ResetAbsent, "none"),
    FileResponse(StatusForbidden, FALSE, ResetAbsent, "none") }
  \cup { FileResponse(StatusForbidden, TRUE, reset, "none") :
           reset \in ResetHeaders(t) }

\* what fetchFileContent returns: the kind of its error ("" for none), the
\* status the error reports, and whether it returns the decoded content
FileError(kind, status) == [err |-> kind, status |-> status, content |-> FALSE]
FileContent == [err |-> "", status |-> StatusOK, content |-> TRUE]

\* resp.StatusCode == http.StatusForbidden and X-RateLimit-Remaining is "0"
IsRateLimited(resp) == resp.status = StatusForbidden /\ resp.limited

\* time.Until(time.Unix(resetTime, 0))
Until(resetTime, t) == resetTime * Second - t

\* a retry loop that sleeps until any reset time to come
AnyWait(waitTime) == waitTime > 0

\* waitTime > 0 && waitTime < 5*time.Minute
BoundedWait(waitTime) == waitTime > 0 /\ waitTime < FiveMinutes

\* the sleep after the rate-limited response resp of round i at time t: by
\* the reset time when the header is there, parses and gives a bounded wait,
\* by exponential backoff otherwise
SleepAfter(resp, i, t) ==
  LET parsed == ParseInt(resp.reset)
      waitTime == Until(parsed.value, t)
  IN IF resp.reset # << >> /\ parsed.ok /\ BoundedWait(waitTime)
     THEN [kind |-> "hint", ticks |-> waitTime + Second,
           i |-> i, reset |-> resp.reset, at |-> t]
     ELSE [kind |-> "backoff", ticks |-> (2 ^ i) * Second,
           i |-> i, reset |-> resp.reset, at |-> t]

InitFileFetch ==
  /\ CoreIdle /\ PublisherIdle /\ ParseIdle /\ ProcessIdle
  /\ ffPc = "loop"
  /\ ffI = 0
  /\ ffNow \in 0..(Second - 1)
  /\ ffResp = << >>
  /\ ffRequests = 0
  /\ ffSleeps = << >>
  /\ ffResult = << >>

\* a loop that goes round as long as it is rate-limited
LoopsForever(i) == TRUE

\* i < maxRetries
InLoop(i) == i < FileMaxRetries

\* httpClient.Do(req) in the loop, and its answer
FileRequest(resp) ==
  /\ ffPc = "loop" /\ InLoop(ffI)
  /\ ffRequests' = ffRequests + 1
  /\ ffResp' = resp
  /\ IF resp.status = 0
     THEN /\ ffPc' = "done"
          /\ ffResult' = FileError("transport", 0)
     ELSE /\ ffPc' = IF IsRateLimited(resp) THEN "sleep" ELSE "check"
          /\ UNCHANGED ffResult
  /\ UNCHANGED << core, publisher, parse, process, ffI, ffNow, ffSleeps >>

\* rate-limited: the sleep, then `continue`
FileSleep ==
  LET slept == SleepAfter(ffResp, ffI, ffNow)
  IN /\ ffPc = "sleep"
     /\ ffSleeps' = Append(ffSleeps, slept)
     /\ ffNow' = ffNow + slept.ticks
     /\ ffI' = ffI + 1
     /\ ffPc' = "loop"
     /\ UNCHANGED << core, publisher, parse, process, ffResp, ffRequests, ffResult >>

\* after the loop: the status of the last response, then its content
FileCheck ==
  /\ ffPc = "check" \/ (ffPc = "loop" /\ ~InLoop(ffI))
  /\ ffPc' = "done"
  /\ ffResult' = IF ffResp.status # StatusOK
                 THEN FileError("api-error", ffResp.status)
                 ELSE IF ffResp.body # "content"
                 THEN FileError("no-content", ffResp.status)
                 ELSE FileContent
  /\ UNCHANGED << core, publisher, parse, process, ffI, ffNow, ffResp, ffRequests, ffSleeps >>

NextFileFetch ==
  \/ \E resp \in FileResponses(ffNow) : FileRequest(resp)
  \/ FileSleep
  \/ FileCheck

SpecFileFetch == InitFileFetch /\ [][NextFileFetch]_vars


\* -------------------------------------------- the publisher, call by call
\* A path is the sequence of its segments, the parts between the slashes (the
\* empty path is one empty segment); a namespace is one segment.
PathSegments == {"apps", "ns", "x", ""}
UpdatePaths == SeqsUpTo(PathSegments, 3) \ {<< >>}
Namespaces == {"ns", "x", ""}

\* strings.HasPrefix(path, dir + "/")
HasPrefixNever(path, dir) == FALSE
HasPrefix(path, dir) ==
  Len(path) > Len(dir) /\ SubSeq(path, 1, Len(dir)) = dir

\* the path of an update in the payload: apps/<namespace>/<path> unless the
\* path begins with apps/<namespace>/
QualifiedPath(path, namespace) ==
  IF ~HasPrefix(path, <<"apps", namespace>>)
  THEN <<"apps", namespace>> \o path
  ELSE path

\* ghFiles: one entry per update, in order
PayloadPaths(updates, namespace) ==
  [k \in DOMAIN updates |-> QualifiedPath(updates[k], namespace)]

\* answers to POST /pull_requests: status 0 is a request that failed; read is
\* whether the body could be read to its end
PublishBodies == { <<"o", "k">>, <<"c", "o", "n", "f", "l", "i", "c", "t">> }
PublishAnswers ==
  { [status |-> 0, read |-> FALSE, body |-> << >>] }
  \cup [status : {101, 201, 204, 302, 304, 404, 500}, read : BOOLEAN,
        body : PublishBodies]

\* resp.StatusCode >= 400
RejectsStatus(status) == status >= HttpErrorLow

\* sendToGHService after the payload is built: the request, the body, the
\* status
PublishReturn(resp) ==
  IF resp.status = 0
  THEN [called |-> TRUE, err |-> "send", body |-> << >>]
  ELSE IF ~resp.read
  THEN [called |-> TRUE, err |-> "read", body |-> << >>]
  ELSE IF RejectsStatus(resp.status)
  THEN [called |-> TRUE, err |-> "status", body |-> resp.body]
  ELSE [called |-> TRUE, err |-> "", body |-> << >>]

InitPublisher ==
  /\ CoreIdle /\ FileFetchIdle /\ ParseIdle /\ ProcessIdle
  /\ pubNamespace \in Namespaces
  /\ pubUpdates \in { <<path>> : path \in UpdatePaths }
  /\ pubSent = << >>
  /\ pubResp = << >>
  /\ pubResult = NotPublished
  /\ pubCalls = 0

\* handleResult calls sendToGHService with the updates of the engine
SendToGHService(resp) ==
  /\ pubCalls = 0
  /\ pubSent' = PayloadPaths(pubUpdates, pubNamespace)
  /\ pubResp' = resp
  /\ pubResult' = PublishReturn(resp)
  /\ pubCalls' = 1
  /\ UNCHANGED << core, fileFetch, parse, process, pubNamespace, pubUpdates >>

\* a further call whose updates carry the paths of the last payload
SendAgain(resp) ==
  /\ pubCalls >= 1 /\ pubCalls < MaxCalls
  /\ pubUpdates' = pubSent
  /\ pubSent' = PayloadPaths(pubSent, pubNamespace)
  /\ pubResp' = resp
  /\ pubResult' = PublishReturn(resp)
  /\ pubCalls' = pubCalls + 1
  /\ UNCHANGED << core, fileFetch, parse, process, pubNamespace >>

NextPublisher ==
  \/ \E resp \in PublishAnswers : SendToGHService(resp)
  \/ \E resp \in PublishAnswers : SendAgain(resp)

SpecPublisher == InitPublisher /\ [][NextPublisher]_vars


\* ------------------------------------- handleResult, from object to diagnostic
\* spec.name and metadata.namespace are sequences of characters; a field the
\* object lacks reads as the empty string.  spec.details is a sequence of
\* pieces: the prefixes "Error: " and "Solution: ", a newline, other text.
NameChars == {"a", "/"}
ResourceNames == SeqsUpTo(NameChars, 3)
MetaNamespaces == { << >>, <<"m">> }
DefaultNamespace == <<"d", "e", "f", "a", "u", "l", "t">>

ErrorPrefix == <<"Error: ">>
SolutionPrefix == <<"Solution: ">>
BlankLineSep == <<"\n", "\n">>
DetailsHeads ==
  { << >>, ErrorPrefix, ErrorPrefix \o <<"x">>, <<"x">>,
    <<"x">> \o ErrorPrefix, SolutionPrefix \o <<"x">> }
DetailsSeps == { << >>, <<"\n">>, BlankLineSep, BlankLineSep \o <<"\n">> }
DetailsTails ==
  { << >>, SolutionPrefix, SolutionPrefix \o <<"y">>, <<"y">>,
    <<"y">> \o BlankLineSep \o SolutionPrefix \o <<"z">>,
    ErrorPrefix \o <<"y">>, <<"y">> \o SolutionPrefix }
DetailsTexts ==
  { h \o m \o t : h \in DetailsHeads, m \in DetailsSeps, t \in DetailsTails }

Results ==
  [name : ResourceNames, namespace : MetaNamespaces, details : DetailsTexts]

\* strings.Index(s, sep), counted from 1; 0 where Go answers -1
IndexOfLast(s, sep) ==
  LET at == { k \in 1..(Len(s) - Len(sep) + 1) :
                SubSeq(s, k, k + Len(sep) - 1) = sep }
  IN IF at = {} THEN 0 ELSE CHOOSE k \in at : \A j \in at : j <= k
IndexOf(s, sep) ==
  LET at == { k \in 1..(Len(s) - Len(sep) + 1) :
                SubSeq(s, k, k + Len(sep) - 1) = sep }
  IN IF at = {} THEN 0 ELSE CHOOSE k \in at : \A j \in at : k <= j

\* strings.SplitN(s, sep, 2): s whole, or what is before and what is after
\* the first sep
SplitN(s, sep) ==
  LET k == IndexOf(s, sep)
  IN IF k = 0 THEN << s >>
     ELSE << SubSeq(s, 1, k - 1), SubSeq(s, k + Len(sep), Len(s)) >>

\* handleResult: diag.namespace and diag.name
ResolveName(obj) ==
  LET parts == SplitN(obj.name, <<"/">>)
  IN IF obj.name # << >> /\ Contains(obj.name, <<"/">>)
     THEN IF Len(parts) = 2
          THEN [namespace |-> parts[1], name |-> parts[2]]
          ELSE [namespace |-> DefaultNamespace, name |-> obj.name]
     ELSE [namespace |-> IF obj.namespace = << >> THEN DefaultNamespace
                         ELSE obj.namespace,
           name |-> obj.name]

\* a TrimPrefix that trims nothing
KeepPrefix(text) == text
\* strings.TrimPrefix(parts[1], "Solution: ")
TrimSolution(text) == TrimPrefix(text, SolutionPrefix)

\* handleResult: diag.error and diag.solution
ParseDetails(details) ==
  LET parts == SplitN(details, BlankLineSep)
  IN [error |-> IF Len(parts) >= 1 THEN TrimPrefix(parts[1], ErrorPrefix)
                ELSE << >>,
      solution |-> IF Len(parts) >= 2 THEN TrimSolution(parts[2]) ELSE << >>]

InitParse ==
  /\ CoreIdle /\ FileFetchIdle /\ PublisherIdle /\ ProcessIdle
  /\ resObj \in Results
  /\ diag = NoDiagnostic
  /\ fetchedFor = NotFetchedFor

\* handleResult after the gate: the diagnostic is filled in
FillDiagnostic ==
  /\ ~diag.filled
  /\ diag' = [filled |-> TRUE,
              namespace |-> ResolveName(resObj).namespace,
              name |-> ResolveName(resObj).name,
              error |-> ParseDetails(resObj.details).error,
              solution |-> ParseDetails(resObj.details).solution]
  /\ UNCHANGED << core, fileFetch, publisher, process, resObj, fetchedFor >>

\* handleResult goes on: fetchGitHubFiles(ctx, namespace)
CallFetch ==
  /\ diag.filled /\ ~fetchedFor.called
  /\ fetchedFor' = [called |-> TRUE, namespace |-> diag.namespace]
  /\ UNCHANGED << core, fileFetch, publisher, process, resObj, diag >>

NextParse == FillDiagnostic \/ CallFetch

SpecParse == InitParse /\ [][NextParse]_vars


\* ------------------------------------------------- main and its goroutines
\* The process from signal.Notify(signalCh, SIGINT, SIGTERM) on: main, the
\* goroutine that waits for a signal, the informer and the handler it runs.
\* The goroutine that answers SIGUSR1 with a health check touches none of
\* this state.
InitProcess ==
  /\ CoreIdle /\ FileFetchIdle /\ PublisherIdle /\ ParseIdle
  /\ ProcessIdle

Alive == ~exit.ended

\* SIGINT or SIGTERM reaches the process: package signal sends it to
\* signalCh without blocking, so it is dropped when the buffer is full
Signal ==
  /\ Alive /\ signalsSent < MaxSignals
  /\ signalsSent' = signalsSent + 1
  /\ signalCh' = IF signalCh < 1 THEN signalCh + 1 ELSE signalCh
  /\ UNCHANGED << core, fileFetch, publisher, parse, stopCh, closes, sigPc,
                  procMain, informerRun, handlerBusy, delivered, exit >>

\* the signal goroutine: <-signalCh
ReceiveSignal ==
  /\ Alive /\ sigPc = "receive" /\ signalCh > 0
  /\ signalCh' = signalCh - 1
  /\ sigPc' = "close"
  /\ UNCHANGED << core, fileFetch, publisher, parse, stopCh, closes,
                  procMain, informerRun, handlerBusy, delivered, signalsSent,
                  exit >>

\* a goroutine that waits for the next signal after it closed stopCh
WaitsAgain == "receive"
\* the goroutine returns after close(stopCh)
AfterClose == "done"

\* the signal goroutine: close(stopCh), which panics on a closed channel
CloseStop ==
  /\ Alive /\ sigPc = "close"
  /\ closes' = closes + 1
  /\ stopCh' = "closed"
  /\ sigPc' = AfterClose
  /\ exit' = IF stopCh = "closed"
             THEN [ended |-> TRUE, status |-> 2,
                   cutShort |-> IF handlerBusy THEN 1 ELSE 0]
             ELSE exit
  /\ UNCHANGED << core, fileFetch, publisher, parse, signalCh, procMain,
                  informerRun, handlerBusy, delivered, signalsSent >>

\* main: the initial health check is over, go informer.Run(stopCh)
StartRun ==
  /\ Alive /\ procMain = "setup"
  /\ procMain' = "wait"
  /\ informerRun' = "running"
  /\ UNCHANGED << core, fileFetch, publisher, parse, signalCh, stopCh,
                  closes, sigPc, handlerBusy, delivered, signalsSent, exit >>

\* the informer hands an event to a handler, which calls handleResult
Handle ==
  /\ Alive /\ informerRun = "running" /\ ~handlerBusy
  /\ delivered < MaxEvents
  /\ handlerBusy' = TRUE
  /\ delivered' = delivered + 1
  /\ UNCHANGED << core, fileFetch, publisher, parse, signalCh, stopCh,
                  closes, sigPc, procMain, informerRun, signalsSent, exit >>

\* handleResult returns
Handled ==
  /\ Alive /\ handlerBusy
  /\ handlerBusy' = FALSE
  /\ UNCHANGED << core, fileFetch, publisher, parse, signalCh, stopCh,
                  closes, sigPc, procMain, informerRun, delivered,
                  signalsSent, exit >>

\* informer.Run returns once stopCh is closed: the watch is over
StopRun ==
  /\ Alive /\ informerRun = "running" /\ stopCh = "closed"
  /\ informerRun' = "stopped"
  /\ UNCHANGED << core, fileFetch, publisher, parse, signalCh, stopCh,
                  closes, sigPc, procMain, handlerBusy, delivered,
                  signalsSent, exit >>

\* main: <-stopCh returns, main returns and the process ends with status 0,
\* its other goroutines with it
ReturnMain ==
  /\ Alive /\ procMain = "wait" /\ stopCh = "closed"
  /\ procMain' = "returned"
  /\ informerRun' = "stopped"
  /\ exit' = [ended |-> TRUE, status |-> 0,
              cutShort |-> IF handlerBusy THEN 1 ELSE 0]
  /\ UNCHANGED << core, fileFetch, publisher, parse, signalCh, stopCh,
                  closes, sigPc, handlerBusy, delivered, signalsSent >>

NextProcess ==
  \/ Signal
  \/ ReceiveSignal
  \/ CloseStop
  \/ StartRun
  \/ Handle
  \/ Handled
  \/ StopRun
  \/ ReturnMain

\* every goroutine that can take a step is scheduled in the end
SpecProcess ==
  /\ InitProcess /\ [][NextProcess]_vars
  /\ WF_vars(ReceiveSignal) /\ WF_vars(CloseStop)
  /\ WF_vars(StartRun) /\ WF_vars(ReturnMain)

\* ------------------------------------------------------------------ claims
InFlight(r) == pc[r] \notin {"unborn", "finished"}
IsMarked(p, i) == i \in DOMAIN p /\ p[i] = TRUE
IsPrefix(s, t) == Len(s) <= Len(t) /\ SubSeq(t, 1, Len(s)) = s
PipelineOrder == <<"gate", "extract", "fetch", "remediate", "publish">>
EnginePcs == {"ai_start", "probe", "attempt", "send"}
\* where a run waits for the network or sleeps
BlockedPcs == {"fetch", "probe", "attempt", "send", "publish"}
RetryableStatuses == {429, 500, 502, 503, 504}

\* C1: whatever events arrive for an identity, from one goroutine or from two
\* at once, at most one invocation passes the gate for it and the fetcher is
\* called at most once for it.
C1_AtMostOneRunPerIdentity ==
  \A i \in Identities : gatePasses[i] <= 1 /\ fetchCalls[i] <= 1

\* two add events of one identity in flight together: one has fetched, the
\* other was turned away at the gate
C1_Witness ==
  \E r1, r2 \in Runs :
    /\ r1 # r2
    /\ ev[r1].type = "add" /\ ev[r2].type = "add"
    /\ ResourceID(ev[r1]) = ResourceID(ev[r2])
    /\ log[r1].fetched # "no"
    /\ log[r2].result = "skipped-processed"
    /\ fetchCalls[ResourceID(ev[r1])] = 1

\* C2: at most one POST /pull_requests is sent per identity, whatever events
\* arrive and however the request ends.
C2_AtMostOnePublishPerIdentity ==
  \A i \in Identities : publishCalls[i] <= 1

\* the publish of an identity failed, and a later update event with a new
\* resourceVersion for it was turned away
C2_Witness ==
  \E r \in Runs :
    /\ ev[r].type = "update" /\ ev[r].oldVersion # ev[r].newVersion
    /\ log[r].result = "skipped-processed"
    /\ outcome[ResourceID(ev[r])] = "publish-failed"
    /\ publishCalls[ResourceID(ev[r])] = 1

\* C3: a marked identity stays marked, and no invocation passes the gate for
\* it any more.
C3_ProcessedIsPermanent ==
  [][\A i \in Identities :
       IsMarked(processedResources, i) =>
         /\ IsMarked(processedResources', i)
         /\ gatePasses'[i] = gatePasses[i]]_vars

\* the run of an identity failed at the fetch, and a later update event with
\* a new resourceVersion for it was turned away
C3_Witness ==
  \E r \in Runs :
    /\ ev[r].type = "update" /\ ev[r].oldVersion # ev[r].newVersion
    /\ log[r].result = "skipped-processed"
    /\ outcome[ResourceID(ev[r])] = "fetch-failed"
    /\ IsMarked(processedResources, ResourceID(ev[r]))

\* C4: an update event with an unchanged resourceVersion returns from the
\* callback without entering any stage of the pipeline.
C4_UnchangedUpdateSkipped ==
  \A r \in Runs :
    (ev[r].type = "update" /\ ev[r].oldVersion = ev[r].newVersion) =>
      /\ pc[r] = "done"
      /\ log[r] = Ends(EmptyLog, "skipped-version")

\* such an update event for an identity that was never processed
C4_Witness ==
  \E r \in Runs :
    /\ ev[r].type = "update" /\ ev[r].oldVersion = ev[r].newVersion
    /\ ~IsMarked(processedResources, ResourceID(ev[r]))
    /\ pc[r] = "done"

\* C5 as claimed: while a run waits for the network or sleeps, the handling
\* of a further event can start.
C5_BlockedRunDelaysNobody ==
  \A r \in Runs :
    (pc[r] \in BlockedPcs /\ nEvents < budget) =>
      ENABLED (\E g \in Callers, e \in Events : Deliver(g, e))

\* C5 as amended: handleResult runs inside the callback, so the invocations
\* in flight are on different informer goroutines, one per goroutine at most.
C5_OneRunPerCaller ==
  /\ \A r1, r2 \in Runs :
       (r1 # r2 /\ InFlight(r1) /\ InFlight(r2)) => caller[r1] # caller[r2]
  /\ Cardinality({r \in Runs : InFlight(r)}) <= nCallers

\* a run waits for the inference endpoint while events are still to come
C5_Witness ==
  \E r \in Runs : pc[r] = "send" /\ nEvents < budget

\* C6: sendToAIEndpoint returns no error, and no run ends with an AI
\* endpoint error.
C6_EngineNeverFails ==
  \A r \in Runs : ~log[r].aiErr /\ log[r].result # "ai-error"

\* the engine has returned from a call in which it fell back
C6_Witness ==
  \E r \in Runs : log[r].remediated /\ log[r].fellBack /\ ~log[r].aiErr

\* C7: a run whose fetch failed has ended, without entering the engine or
\* the publisher.
C7_FetchFailureEndsRun ==
  \A r \in Runs :
    log[r].fetched = "err" =>
      /\ pc[r] = "done"
      /\ log[r].stages = <<"gate", "extract", "fetch">>
      /\ log[r].aiReqs = 0 /\ ~log[r].fellBack /\ ~log[r].remediated
      /\ log[r].pubs = 0

C7_Witness ==
  \E r \in Runs : log[r].fetched = "err" /\ log[r].result = "fetch-failed"

\* C8: the stages of a run are entered in the order gate, extract, fetch,
\* remediate, publish, each once; the engine works only on a fetched,
\* non-empty file set, and the publisher only after the engine returned.
C8_StagesInOrder ==
  \A r \in Runs :
    /\ IsPrefix(log[r].stages, PipelineOrder)
    /\ (pc[r] \in EnginePcs \/ log[r].aiReqs > 0 \/ log[r].fellBack) =>
         log[r].fetched = "ok"
    /\ pc[r] \in EnginePcs => DOMAIN files[r] # {}
    /\ (pc[r] = "publish" \/ log[r].pubs > 0) =>
         log[r].remediated
    /\ log[r].pubs <= 1

\* a run that went through every stage
C8_Witness ==
  \E r \in Runs : log[r].stages = PipelineOrder /\ log[r].result = "published"

\* C9 as claimed: after an attempt that was answered with a non-success
\* status, a further attempt is made only if that status is one of 429, 500,
\* 502, 503, 504, whatever the body of the answer holds.
C9_RetryOnlyOnRetryableStatus ==
  \A r \in Runs :
    ( /\ pc[r] = "attempt" /\ attempt[r] > 0 /\ attempt[r] < aiMaxRetries
      /\ lastResp[r].status # 0 /\ ~IsSuccessStatus(lastResp[r].status) ) =>
      lastResp[r].status \in RetryableStatuses

\* C10: an engine call sends at most aiMaxRetries chat/completions requests,
\* and the sleep before attempt k >= 1 is 2^k seconds, 30 at most.
C10_AttemptsAndBackoffBounded ==
  \A r \in Runs :
    /\ log[r].aiReqs <= aiMaxRetries
    /\ (pc[r] = "send" /\ attempt[r] >= 1) =>
         /\ wait[r] <= BackoffCapSecs
         /\ (2 ^ attempt[r] <= BackoffCapSecs => wait[r] = 2 ^ attempt[r])
         /\ (2 ^ attempt[r] > BackoffCapSecs => wait[r] = BackoffCapSecs)

\* the last attempt of a call with more than five attempts, after a sleep at
\* the cap
C10_Witness ==
  \E r \in Runs :
    /\ pc[r] = "send" /\ attempt[r] + 1 = aiMaxRetries
    /\ attempt[r] >= 5 /\ wait[r] = BackoffCapSecs
    /\ log[r].aiReqs = attempt[r]

\* C11: with health checking enabled, an engine call whose health verdict is
\* unhealthy (from the fresh cache or from the probe it made) sends no
\* chat/completions request and returns what the fallback heuristic yields
\* for the diagnostic's solution and the fetched files.
C11_UnhealthySkipsEndpoint ==
  [][\A r \in Runs :
       ( /\ aiHealthCheck
         /\ \/ /\ pc[r] = "ai_start" /\ pc'[r] # "ai_start"
               /\ lastHealthCheck.set /\ now - lastHealthCheck.at < Minute
               /\ ~endpointHealthy
            \/ /\ pc[r] = "probe" /\ pc'[r] # "probe"
               /\ ~endpointHealthy' ) =>
         /\ log[r].aiReqs = 0 /\ log'[r].aiReqs = 0
         /\ pc'[r] \in {"publish", "done"}
         /\ log'[r].remediated /\ log'[r].fellBack /\ ~log'[r].aiErr
         /\ fileUpdates'[r] =
              generateLocalFallbackResponse(ev[r].solution, files[r])]_vars

\* a call that was answered "unhealthy" from the cache has returned the
\* heuristic's update, which goes to the publisher
C11_Witness ==
  \E r \in Runs :
    /\ aiHealthCheck
    /\ log[r].verdict = "unhealthy" /\ log[r].probed = -1
    /\ log[r].fellBack /\ pc[r] = "publish" /\ fileUpdates[r] # {}

\* C12: a health consultation probes exactly when the cache was never set or
\* is a minute old or older, and otherwise answers from the cache without a
\* request; a probe sets the cached verdict to "the status is 2xx" and the
\* time of the last check to the present, whatever the status.
C12_ProbeIffStale ==
  [][\A r \in Runs :
       /\ (aiHealthCheck /\ pc[r] = "ai_start" /\ pc'[r] # "ai_start") =>
            IF ~lastHealthCheck.set \/ now - lastHealthCheck.at >= Minute
            THEN pc'[r] = "probe"
            ELSE /\ pc'[r] # "probe"
                 /\ log'[r].probed = -1
                 /\ log'[r].verdict =
                      (IF endpointHealthy THEN "healthy" ELSE "unhealthy")
                 /\ endpointHealthy' = endpointHealthy
                 /\ lastHealthCheck' = lastHealthCheck
       /\ (pc[r] = "probe" /\ pc'[r] # "probe") =>
            /\ log'[r].probed \in ProbeResponses
            /\ endpointHealthy' =
                 (log'[r].probed >= 200 /\ log'[r].probed <= 299)
            /\ log'[r].verdict =
                 (IF endpointHealthy' THEN "healthy" ELSE "unhealthy")
            /\ lastHealthCheck' = [set |-> TRUE, at |-> now]]_vars

\* a consultation that probes because the last check is a minute old
C12_Witness ==
  \E r \in Runs :
    /\ pc[r] = "probe"
    /\ lastHealthCheck.set /\ now - lastHealthCheck.at >= Minute

\* the shapes of a 2xx answer that the engine cannot use
MalformedReplies == {"notjson", "nochoices", "prose"}

\* C13 as claimed: after an attempt that was answered with a 2xx response of
\* unexpected shape (not JSON, no choices[0].message.content, no parsable
\* array) the call makes no further attempt.
C13_MalformedNotRetried ==
  \A r \in Runs :
    (pc[r] = "attempt" /\ attempt[r] > 0 /\ attempt[r] < aiMaxRetries) =>
      ~( /\ IsSuccessStatus(lastResp[r].status)
         /\ lastResp[r].reply \in MalformedReplies )

\* C14 as claimed: for every reply prose + array + prose, brackets in the
\* prose or not, the extraction yields the entries of the array.
C14_ExtractsTheArray ==
  extracted.called =>
    extracted = Returned([k \in 1..Len(reply.array) |->
                            DecodeObject(reply.array[k])])

\* C14 as amended: the same when the prose before the array holds no "[" and
\* the prose after it no "]".
C14_ExtractsBetweenOuterBrackets ==
  ( /\ extracted.called
    /\ \A i \in 1..Len(reply.pre) : reply.pre[i] # "["
    /\ \A i \in 1..Len(reply.post) : reply.post[i] # "]" ) =>
    extracted = Returned([k \in 1..Len(reply.array) |->
                            DecodeObject(reply.array[k])])

\* two updates extracted from a reply with prose on both sides, a "]" before
\* the array and a "[" after it
C14_Witness ==
  /\ extracted.called /\ ~extracted.err /\ Len(extracted.updates) = 2
  /\ reply.pre = <<"w", "]">> /\ reply.post = <<"[", "w">>

\* solution texts that mention neither "oomkilled" nor "out of memory"
NonOomSolutions ==
  { <<"O", "O", "M">>, <<"c", "r", "a", "s", "h">>,
    <<"o", "u", "t", " ", "o", "f", " ", " ", "m", "e", "m", "o", "r", "y">> }
\* a Deployment with a metadata.name
NamedDeployment(mem, ending) == Manifest(DeploymentText, TRUE, mem, ending)
OneFile(name, doc) == [n \in {name} |-> doc]
OneUpdate(name, doc) == { [path |-> name, content |-> doc] }

\* C15: for a solution text that mentions neither "oomkilled" nor "out of
\* memory", in any case of letters, the heuristic returns no update, whatever
\* the files.
C15_NoUpdateWithoutOom ==
  (fbCalls >= 1 /\ fbSolution \in NonOomSolutions) => fbUpdates = {}

\* the heuristic has run on the solution "OOM" and a Deployment with a limit
\* of 6Mi, which it raises for an out-of-memory solution
C15_Witness ==
  /\ fbCalls = 1 /\ fbSolution = <<"O", "O", "M">>
  /\ fbFiles = OneFile("deployment.yaml",
                       NamedDeployment(<<"6", "M", "i">>, "newline"))
  /\ fbUpdates = {}

\* what the heuristic is to write for the limits in MemoryValues that are a
\* number with or without a unit
ExpectedLimit(mem) ==
  CASE mem = <<"6", "M", "i">> -> DefaultLimit
    [] mem = <<"6", "3", "M", "i">> -> DefaultLimit
    [] mem = <<"6", "4", "M", "i">> -> <<"9", "6", "M", "i">>
    [] mem = <<"1", "2", "8", "M", "i">> -> <<"1", "9", "2", "M", "i">>
    [] mem = <<"1", "G", "i">> -> DefaultLimit
    [] mem = <<"6", "5">> -> <<"9", "7">>
    [] mem = DefaultLimit -> <<"3", "8", "4", "M", "i">>
NumericLimits == MemoryValues \ {<< >>}

\* C16 as claimed: for an out-of-memory solution and a Deployment file with
\* the limit <n><unit>, the heuristic proposes the file with the limit
\* 256Mi when n < 64 and floor(1.5 n)<unit> when n >= 64.
C16_LimitRaised ==
  \A mem \in NumericLimits, ending \in Endings :
    ( /\ fbCalls = 1 /\ fbSolution \notin NonOomSolutions
      /\ fbFiles = OneFile("deployment.yaml", NamedDeployment(mem, ending)) ) =>
      fbUpdates = OneUpdate("deployment.yaml",
                            NamedDeployment(ExpectedLimit(mem), ending))

\* the limits section of a content holds a memory value of 256Mi
HasDefaultLimit(doc) ==
  \E i \in 1..Len(doc) :
    /\ doc[i].key = "memory" /\ doc[i].value = DefaultLimit
    /\ \E j \in 1..(i - 1) :
         /\ doc[j].key = "limits"
         /\ \A k \in (j + 1)..(i - 1) : doc[k].key # "requests"

\* C17 as claimed: for an out-of-memory solution and a Deployment file
\* without a resources.limits.memory, the heuristic returns an update of the
\* file with the limit 256Mi.
C17_AbsentLimitSet ==
  \A ending \in Endings :
    ( /\ fbCalls = 1 /\ fbSolution \notin NonOomSolutions
      /\ fbFiles = OneFile("deployment.yaml",
                           NamedDeployment(NoMemoryLine, ending)) ) =>
      \E u \in fbUpdates :
        u.path = "deployment.yaml" /\ HasDefaultLimit(u.content)

\* the limits the heuristic produces from MemoryValues
ProducedLimits ==
  { DefaultLimit, <<"9", "6", "M", "i">>, <<"1", "9", "2", "M", "i">>, <<"9", "7">>,
    <<"3", "8", "4", "M", "i">> }
ExpectedAgain(mem) ==
  CASE mem = DefaultLimit -> <<"3", "8", "4", "M", "i">>
    [] mem = <<"9", "6", "M", "i">> -> <<"1", "4", "4", "M", "i">>
    [] mem = <<"1", "9", "2", "M", "i">> -> <<"2", "8", "8", "M", "i">>
    [] mem = <<"9", "7">> -> <<"1", "4", "5">>
    [] mem = <<"3", "8", "4", "M", "i">> -> <<"5", "7", "6", "M", "i">>

\* the second call was made on the one file the first call rewrote, a
\* Deployment whose limit is one of the produced limits
OnProducedContent ==
  \E mem \in ProducedLimits, ending \in Endings :
    fbFiles = OneFile("deployment.yaml", NamedDeployment(mem, ending))

\* a Deployment that goes on with the overhead, after a call wrote the limit
\* oh: the memory of the overhead holds it as well
RaisedWithOverhead(mem, oh) ==
  LET doc == NamedDeployment(mem, OverheadEnding)
  IN [doc EXCEPT ![Len(doc) - 1].value = oh]

\* the second call was made on such a Deployment: its limit is a produced
\* limit, or it has none and the memory of the overhead was read as 32Mi
OnProducedOverhead ==
  \/ \E mem \in ProducedLimits :
       fbFiles = OneFile("deployment.yaml", RaisedWithOverhead(mem, mem))
  \/ fbFiles = OneFile("deployment.yaml",
                       RaisedWithOverhead(NoMemoryLine, DefaultLimit))

C19_NonSuccessListingFails ==
  LET st == ghApi.root.status
  IN ( /\ ghFiles.called
       /\ st # 0 /\ ~(st >= 200 /\ st <= 299) ) =>
       /\ ghFiles.err # ""
       /\ st = 404 => ghFiles.err = "not-found"
       /\ (st = 403 /\ ghApi.root.limited) => ghFiles.err = "rate-limited"

\* sequences of answers with which the request for a file fails
FailingAnswers ==
  { <<NotFound>>, <<NoAnswer>>, <<RateLimited, RateLimited, RateLimited>> }

\* the listing of apps/ns was taken, and nothing it lists could be fetched
NothingFetched ==
  /\ ghApi.root.status \in {200, 300} /\ ghApi.root.body = "array"
  /\ \A i \in 1..Len(ghApi.root.items) :
       IF ghApi.root.items[i].type = "file"
       THEN ghApi.a \in FailingAnswers
       ELSE \/ ghApi.sub.status # 200
            \/ Len(ghApi.sub.items) = 0
            \/ ghApi.b \in FailingAnswers

\* C20: the fetch never succeeds with no file: a traversal that ends with
\* zero files fails, a success carries at least one file, and handleResult
\* goes on to the engine exactly after a success.
C20_NoEmptySuccess ==
  ghFiles.called =>
    /\ NothingFetched => ghFiles.err # ""
    /\ ghFiles.err = "" => DOMAIN ghFiles.files # {}
    /\ AfterFetch([err |-> ghFiles.err # "", files |-> ghFiles.files]) =
         (IF ghFiles.err = "" THEN "ai_start" ELSE "done")

\* a listing with a file and a subdirectory, both of which fail
C20_Witness ==
  /\ ghFiles.called /\ ghFiles.err = "no-files"
  /\ ghApi.root = Response(200, FALSE, "array", <<FileA, DirSub>>)
  /\ ghApi.a = <<RateLimited, RateLimited, RateLimited>>
  /\ ghApi.sub = NotFound

\* the wait a reset header implies when it was read at time `at`
ImpliedWait(reset, at) == ParseInt(reset).value * Second - at
\* a header the retry cannot take a bounded wait from
HintUnusable(reset, at) ==
  \/ reset = ResetAbsent
  \/ ~ParseInt(reset).ok
  \/ ImpliedWait(reset, at) <= 0
  \/ ImpliedWait(reset, at) >= FiveMinutes
\* what C21 says of the sleeps but for the length of a sleep by the hint
BackoffInstead ==
  \A k \in 1..Len(ffSleeps) :
    LET s == ffSleeps[k]
    IN /\ s.i = k - 1
       /\ HintUnusable(s.reset, s.at) <=> s.kind = "backoff"
       /\ s.kind = "backoff" => s.ticks = (2 ^ (k - 1)) * Second
       /\ s.kind = "backoff" => s.ticks \in {1 * Second, 2 * Second, 4 * Second}

\* C21, as stated: while a rate-limited file fetch is retried, no sleep taken
\* from a reset-time hint is longer than 5 minutes, and a hint that implies a
\* wait of 5 minutes or more, or none to come, or does not parse, leads to the
\* exponential backoff of 1, 2, 4 seconds by round.
C21_HintSleepAtMostFiveMinutes ==
  /\ \A k \in 1..Len(ffSleeps) :
       ffSleeps[k].kind = "hint" => ffSleeps[k].ticks <= FiveMinutes
  /\ BackoffInstead

\* C21, amended: a sleep taken from a reset-time hint is the implied wait plus
\* one second, so it is never longer than 5 minutes and 1 second; a hint that
\* implies a wait of 5 minutes or more, or none to come, or does not parse,
\* leads to the exponential backoff of 1, 2, 4 seconds by round.
C21_HintSleepAtMostFiveMinutesAndASecond ==
  /\ \A k \in 1..Len(ffSleeps) :
       ffSleeps[k].kind = "hint" =>
         /\ ffSleeps[k].ticks = ImpliedWait(ffSleeps[k].reset, ffSleeps[k].at) + Second
         /\ ffSleeps[k].ticks <= FiveMinutes + Second
  /\ BackoffInstead

\* a fetch that slept by a hint for more than 5 minutes, then backed off for
\* 2 seconds on a reset time 5 minutes or more away, then for 4 seconds
C21_Witness ==
  /\ Len(ffSleeps) = 3
  /\ ffSleeps[1].kind = "hint" /\ ffSleeps[1].ticks > FiveMinutes
  /\ ffSleeps[2].kind = "backoff" /\ ffSleeps[2].ticks = 2 * Second
  /\ ParseInt(ffSleeps[2].reset).ok
  /\ ImpliedWait(ffSleeps[2].reset, ffSleeps[2].at) >= FiveMinutes
  /\ ffSleeps[3].kind = "backoff" /\ ffSleeps[3].ticks = 4 * Second

\* every request so far was answered rate-limited
AlwaysRateLimited == ffRequests >= 1 /\ Len(ffSleeps) = ffRequests

\* C22: a file fetch that is rate-limited on every attempt sends at most 3
\* requests, whatever the sleeps between them were, and then returns the error
\* of the last rate-limited response, never a content; it does not give up
\* before the third request.
C22_RateLimitedGivesUpAfterThree ==
  /\ ffRequests <= 3
  /\ AlwaysRateLimited =>
       /\ ffPc = "done" <=> (ffRequests = FileMaxRetries /\ ffResult # << >>)
       /\ ffPc = "done" =>
            /\ ffResult.err = "api-error"
            /\ ffResult.status = StatusForbidden
            /\ ~ffResult.content
            /\ IsRateLimited(ffResp)

\* a fetch that gave up after three rate-limited answers, having slept both
\* by a hint and by backoff
C22_Witness ==
  /\ AlwaysRateLimited /\ ffPc = "done" /\ ffRequests = 3
  /\ \E j, k \in 1..Len(ffSleeps) :
       ffSleeps[j].kind = "hint" /\ ffSleeps[k].kind = "backoff"
  /\ ffResult.err # ""

\* apps/<namespace>/ in front of `path`, whatever the path
Prefixed(path, namespace) == <<"apps", namespace>> \o path
\* `path` is apps/<namespace>/ followed by something, possibly empty
StartsWithAppsNs(path, namespace) ==
  Len(path) >= 3 /\ path[1] = "apps" /\ path[2] = namespace

\* C23: the path sent for an update path p is apps/ns/p when p does not start
\* with apps/ns/ and p itself when it does, and sending a sent path again
\* leaves it as it is.
C23_QualifyIdempotent ==
  /\ pubCalls >= 1 =>
       \A k \in DOMAIN pubUpdates :
         /\ k \in DOMAIN pubSent
         /\ ~StartsWithAppsNs(pubUpdates[k], pubNamespace) =>
              pubSent[k] = Prefixed(pubUpdates[k], pubNamespace)
         /\ StartsWithAppsNs(pubUpdates[k], pubNamespace) =>
              pubSent[k] = pubUpdates[k]
  /\ pubCalls >= 2 => pubSent = pubUpdates

\* the path apps/ns (no slash after it) was sent as apps/ns/apps/ns, and sent
\* again unchanged
C23_Witness ==
  /\ pubCalls = 2
  /\ pubNamespace = "ns"
  /\ pubSent = << <<"apps", "ns", "apps", "ns">> >>

\* C24: sendToGHService returns nil exactly when the service answered with a
\* 2xx status; every other status it answered with, 1xx and 3xx included,
\* comes back as an error carrying the response body, and a request that
\* failed comes back as another error than a status the service answered.
C24_SuccessIffStatus2xx ==
  (pubResult.called /\ (pubResp.status = 0 \/ pubResp.read)) =>
    /\ pubResult.err = "" <=> (pubResp.status >= 200 /\ pubResp.status <= 299)
    /\ (pubResp.status # 0 /\ ~(pubResp.status >= 200 /\ pubResp.status <= 299)) =>
         /\ pubResult.err = "status"
         /\ pubResult.body = pubResp.body
    /\ pubResp.status = 0 => pubResult.err \notin {"", "status"}

\* the place of the first '/' in a name, 0 when it has none
FirstSlash(name) ==
  IF \E k \in 1..Len(name) : name[k] = "/"
  THEN CHOOSE k \in 1..Len(name) :
         name[k] = "/" /\ \A j \in 1..(k - 1) : name[j] # "/"
  ELSE 0

\* C25: the namespace is (a) what stands before the first '/' of spec.name
\* when it has one, (b) otherwise metadata.namespace when that is not empty,
\* (c) otherwise "default"; the resource name is what stands after the first
\* '/' in case (a) and spec.name otherwise.
C25_NamespaceResolution ==
  LET name == resObj.name
      k == FirstSlash(name)
  IN diag.filled =>
       /\ k > 0 => /\ diag.namespace = SubSeq(name, 1, k - 1)
                   /\ diag.name = SubSeq(name, k + 1, Len(name))
       /\ (k = 0 /\ resObj.namespace # << >>) =>
            diag.namespace = resObj.namespace /\ diag.name = name
       /\ (k = 0 /\ resObj.namespace = << >>) =>
            diag.namespace = DefaultNamespace /\ diag.name = name

\* a name with two slashes and a metadata.namespace: the namespace is what
\* stands before the first slash, here nothing
C25_Witness ==
  /\ diag.filled
  /\ resObj.name = <<"/", "a", "/">>
  /\ resObj.namespace = <<"m">>
  /\ diag.namespace = << >>
  /\ diag.name = <<"a", "/">>

\* the place of the first blank-line boundary in details, 0 when it has none
FirstBlankLine(details) ==
  IF \E k \in 1..(Len(details) - 1) : details[k] = "\n" /\ details[k + 1] = "\n"
  THEN CHOOSE k \in 1..(Len(details) - 1) :
         /\ details[k] = "\n" /\ details[k + 1] = "\n"
         /\ \A j \in 1..(k - 1) : ~(details[j] = "\n" /\ details[j + 1] = "\n")
  ELSE 0
\* text without the piece `prefix` at its head
Minus(text, prefix) ==
  IF Len(text) >= 1 /\ text[1] = prefix THEN Tail(text) ELSE text

\* C26: parsing the details never fails: they are split at the first
\* blank-line boundary only; the error text is the first part minus a leading
\* "Error: ", the solution text the rest minus a leading "Solution: "; with
\* no blank line the error text is the whole minus the prefix and the
\* solution text is empty; an object without fields gives empty texts and an
\* empty name, and handleResult goes on to the fetch all the same.
C26_DetailsParsing ==
  LET details == resObj.details
      k == FirstBlankLine(details)
  IN /\ diag.filled =>
          /\ k > 0 =>
               /\ diag.error = Minus(SubSeq(details, 1, k - 1), "Error: ")
               /\ diag.solution =
                    Minus(SubSeq(details, k + 2, Len(details)), "Solution: ")
          /\ k = 0 =>
               /\ diag.error = Minus(details, "Error: ")
               /\ diag.solution = << >>
          /\ (resObj.details = << >> /\ resObj.name = << >>) =>
               diag.error = << >> /\ diag.solution = << >> /\ diag.name = << >>
     /\ (diag.filled /\ ~fetchedFor.called) => ENABLED CallFetch
     /\ fetchedFor.called => fetchedFor.namespace = diag.namespace

\* details with a second blank line in the solution half, which is kept
\* whole, in an object without spec.name, and handleResult went on to the fetch
C26_Witness ==
  /\ diag.filled
  /\ resObj.details = ErrorPrefix \o <<"x">> \o BlankLineSep
                      \o <<"y">> \o BlankLineSep \o SolutionPrefix \o <<"z">>
  /\ diag.error = <<"x">>
  /\ diag.solution = <<"y">> \o BlankLineSep \o SolutionPrefix \o <<"z">>
  /\ resObj.name = << >>
  /\ fetchedFor.called

\* C27: the process runs until SIGINT or SIGTERM is received; after the first
\* one stopCh is closed once and no more, whatever signals follow; once it
\* is closed main can return whether or not a handler is still running, the
\* watch is over when it has returned, and the process ends with status 0
\* and in no other way; a process that was sent a signal does end.
StopsOnceOnSignal ==
  /\ closes <= 1
  /\ stopCh = "closed" <=> closes = 1
  /\ closes = 1 => signalsSent >= 1
  /\ exit.ended => /\ closes = 1
                   /\ exit.status = 0
                   /\ procMain = "returned"
                   /\ informerRun = "stopped"
  /\ (Alive /\ procMain = "wait" /\ stopCh = "closed") => ENABLED ReturnMain
  /\ (Alive /\ stopCh = "open") => ~ENABLED ReturnMain
C27_RunsUntilSignalled ==
  /\ []StopsOnceOnSignal
  /\ (signalsSent >= 1) ~> (exit.ended /\ exit.status = 0)

\* main returned with status 0 while a handler was running, after two
\* signals of which the second was received by nobody
C27_Witness ==
  /\ exit.ended /\ exit.status = 0 /\ exit.cutShort = 1
  /\ signalsSent = 2 /\ signalCh = 1
  /\ closes = 1

\* the event of run r is one the callbacks hand to handleResult
Entering(e) == e.type = "add" \/ (e.type = "update" /\ e.oldVersion # e.newVersion)
\* in this step run r passes the gate and its pipeline starts
StartsRun(r) == log[r].stages = << >> /\ log'[r].stages # << >>
\* in this step the event of run r is skipped
SkipsEvent(r) ==
  log[r].result = "" /\ log'[r].result \in {"skipped-version", "skipped-processed"}

\* C28: an event starts a pipeline run exactly when its identity is not marked
\* processed and it is an add event or an update event whose old and new
\* resourceVersion differ; every other event is skipped, and a skip leaves
\* processedResources as it is, which changes only when a run starts.
C28_StartsIffNewAndChanged ==
  [][ /\ \A r \in Runs :
           /\ StartsRun(r) =>
                /\ ~IsMarked(processedResources, ResourceID(ev[r]))
                /\ Entering(ev[r])
                /\ IsMarked(processedResources', ResourceID(ev[r]))
                /\ gatePasses'[ResourceID(ev[r])] = gatePasses[ResourceID(ev[r])] + 1
           /\ SkipsEvent(r) =>
                /\ processedResources' = processedResources
                /\ gatePasses' = gatePasses
                /\ \/ ~Entering(ev'[r])
                   \/ IsMarked(processedResources, ResourceID(ev'[r]))
                /\ log'[r].stages = << >>
           /\ (pc[r] = "check" /\ pc'[r] # "check") =>
                IF Entering(ev[r]) /\ ~IsMarked(processedResources, ResourceID(ev[r]))
                THEN pc'[r] = "mark" ELSE SkipsEvent(r)
           /\ (pc[r] = "mark" /\ pc'[r] # "mark") => StartsRun(r)
           /\ (pc[r] = "unborn" /\ pc'[r] # "unborn") =>
                IF Entering(ev'[r]) THEN pc'[r] = "lock" ELSE SkipsEvent(r)
      /\ processedResources' # processedResources => \E r \in Runs : StartsRun(r)
    ]_vars

\* an update event with a new resourceVersion was skipped because its
\* identity was marked by the run of an earlier event, after an event of
\* another identity
C28_Witness ==
  \E r \in Runs :
    /\ log[r].result = "skipped-processed"
    /\ ev[r].type = "update" /\ ev[r].oldVersion # ev[r].newVersion
    /\ gatePasses[ResourceID(ev[r])] = 1
    /\ \E id \in Identities : id # ResourceID(ev[r]) /\ gatePasses[id] = 1

\* run r is about to ask checkAIEndpointHealth while the cache is stale
AsksStaleCache(r) == pc[r] = "ai_start" /\ aiHealthCheck /\ ~HealthFresh
Probing == { r \in Runs : pc[r] = "probe" }

\* C29, as claimed: the staleness window is no lock, so a pipeline that asks
\* for the health of the endpoint while the cache is stale is not kept from
\* its probe by the probe of another pipeline.
C29_StaleCacheIsNoLock ==
  \A r \in Runs : AsksStaleCache(r) => ENABLED AIStart(r)

\* C29, amended: the probes are serialized.  A pipeline probes with
\* endpointHealthMutex held from its look at the cache to the refresh, so at
\* most one probe is in flight, a probe starts only on a stale cache while
\* no other is in flight, and the cache is fresh when it ends: no two probes
\* are made for the same stale window.
C29_ProbesSerialized ==
  /\ [](/\ Cardinality(Probing) <= 1
        /\ \A r \in Probing : endpointHealthMutex = r /\ ~HealthFresh)
  /\ [][\A r \in Runs :
          /\ (pc[r] # "probe" /\ pc'[r] = "probe") =>
               /\ ~HealthFresh
               /\ Probing = {}
               /\ Probing' = {r}
          /\ (pc[r] = "probe" /\ pc'[r] # "probe") =>
               /\ HealthFresh'
               /\ lastHealthCheck' = [set |-> TRUE, at |-> now]
               /\ \A q \in Runs \ {r} : AsksStaleCache(q) => ~AsksStaleCache(q)'
     ]_vars

\* two pipelines at the health check while the cache is stale: one probes,
\* the other waits for the mutex
C29_Witness ==
  \E r, q \in Runs :
    /\ r # q
    /\ pc[r] = "probe"
    /\ AsksStaleCache(q)
    /\ ~ENABLED AIStart(q)

\* the listing of apps/ns was answered 200 with items that hold the
\* subdirectory, and the listing of the subdirectory failed
SubdirectoryFails ==
  /\ ghApi.root.status = StatusOK /\ ghApi.root.body = "array"
  /\ \E k \in 1..Len(ghApi.root.items) : ghApi.root.items[k] = DirSub
  /\ ghApi.sub.status # StatusOK
\* deployment.yaml is listed and a request for it is answered with its
\* content before the retries are used up
DeploymentFetched ==
  /\ \E k \in 1..Len(ghApi.root.items) : ghApi.root.items[k] = FileA
  /\ \E k \in 1..FileMaxRetries :
       /\ k <= Len(ghApi.a)
       /\ ghApi.a[k] = FileOK
       /\ \A j \in 1..(k - 1) : ghApi.a[j] = RateLimited

\* C30: when the fetch of a subdirectory fails, the fetch of the namespace
\* does not fail for it: the subdirectory is skipped and the files of the
\* rest of the traversal are returned, if there is at least one.
C30_FailedSubdirectorySkipped ==
  (ghFiles.called /\ SubdirectoryFails) =>
    IF DeploymentFetched
    THEN /\ ghFiles.err = ""
         /\ DOMAIN ghFiles.files = { <<"deployment.yaml">> }
         /\ ghFiles.files[<<"deployment.yaml">>] = Repository["deployment.yaml"]
    ELSE ghFiles.err = "no-files"

\* the subdirectory was not found and deployment.yaml, listed before it, is
\* returned alone
C30_Witness ==
  /\ ghFiles.called /\ SubdirectoryFails
  /\ ghApi.root.items = <<FileA, DirSub>>
  /\ ghApi.sub = NotFound
  /\ ghFiles.err = ""
  /\ DOMAIN ghFiles.files = { <<"deployment.yaml">> }

\* the listing of apps/ns was answered 200 with items that hold
\* deployment.yaml, and the requests for it end without its content
DeploymentFetchFails ==
  /\ ghApi.root.status = StatusOK /\ ghApi.root.body = "array"
  /\ \E k \in 1..Len(ghApi.root.items) : ghApi.root.items[k] = FileA
  /\ ~DeploymentFetched

\* C31: when the fetch of a listed file fails after its retries (still
\* rate-limited, or another status than 200), the failure is propagated: the
\* fetch of the namespace does not return a result without an error from
\* which that file is missing.
C31_FileFailurePropagated ==
  (ghFiles.called /\ DeploymentFetchFails) => ghFiles.err # ""

\* ---------------------------------------------------------------------
\* A repository tree from the fetch to the payload: fetchDirectoryContents
\* walks apps/ns of a repository whose every request succeeds, keying each
\* file in the map it returns; sendToGHService then qualifies a path that
\* is the key of a fetched file.
TreeSegments == {"apps", "ns", "f"}
RepoFiles == { RootDir \o rel : rel \in SeqsUpTo(TreeSegments, MaxDepth) \ {<< >>} }

\* the repositories: one or two files, none of them at the path of a
\* directory of the other
RepoTrees ==
  { t \in { {a, b} : a \in RepoFiles, b \in RepoFiles } :
      \A a \in t : \A b \in t : a # b => ~IsPrefix(a, b) }

\* the names the contents API lists for a directory of the tree
Listing(t, dirPath) ==
  { p[Len(dirPath) + 1] : p \in { q \in t : HasPrefix(q, dirPath) } }

\* the assignments files[relativePath] = content made while dirPath is
\* walked, each with the repository path the content was read from
RECURSIVE FetchDirectoryContents(_, _)
FetchDirectoryContents(t, dirPath) ==
  UNION { LET itemPath == dirPath \o <<name>>
          IN IF itemPath \in t
             THEN { [key |-> TrimPrefix(itemPath, dirPath), path |-> itemPath] }
             ELSE { [key |-> TrimPrefix(itemPath, dirPath) \o e.key,
                     path |-> e.path] :
                    e \in FetchDirectoryContents(t, itemPath) } :
          name \in Listing(t, dirPath) }

InitTree ==
  /\ PipelineIdle /\ ParsingIdle /\ HeuristicIdle /\ FetcherIdle /\ OthersIdle
  /\ FlagIdle
  /\ repoTree \in RepoTrees
  /\ treePc = "fetch"
  /\ treeFiles = {}
  /\ treeSent = {}

FetchTree ==
  /\ treePc = "fetch"
  /\ treeFiles' = FetchDirectoryContents(repoTree, RootDir)
  /\ treePc' = "publish"
  /\ UNCHANGED << pipeline, parsing, heuristic, fetcher, others, flag,
                  repoTree, treeSent >>

PublishTree ==
  /\ treePc = "publish"
  /\ treeSent' = { [path |-> e.path, sent |-> QualifiedPath(e.key, "ns")] :
                   e \in treeFiles }
  /\ treePc' = "done"
  /\ UNCHANGED << pipeline, parsing, heuristic, fetcher, others, flag,
                  repoTree, treeFiles >>

NextTree == FetchTree \/ PublishTree

SpecTree == InitTree /\ [][NextTree]_vars

\* C32: every file of the tree, at any depth, is in the map under its path
\* relative to apps/ns, no two files share a key, and the path sent for an
\* update of a key is the repository path of the file the key was given to.
C32_KeysRoundTrip ==
  /\ treePc # "fetch" =>
       /\ { e.path : e \in treeFiles } = repoTree
       /\ \A e \in treeFiles : e.path = RootDir \o e.key
       /\ \A e \in treeFiles : \A g \in treeFiles : e.key = g.key => e = g
  /\ treePc = "done" => \A e \in treeSent : e.sent = e.path

\* the line that line i of a document is nested under: the last line before
\* it with a smaller indentation, 0 for a line at the top
ParentLine(doc, i) ==
  IF \E j \in 1..(i - 1) : doc[j].key # "" /\ doc[j].indent < doc[i].indent
  THEN CHOOSE j \in 1..(i - 1) :
         /\ doc[j].key # "" /\ doc[j].indent < doc[i].indent
         /\ \A k \in (j + 1)..(i - 1) :
              doc[k].key = "" \/ doc[k].indent >= doc[i].indent
  ELSE 0

\* line i is the memory line of resources.limits
IsLimitsMemory(doc, i) ==
  /\ doc[i].key = "memory"
  /\ ParentLine(doc, i) # 0
  /\ doc[ParentLine(doc, i)].key = "limits"
  /\ ParentLine(doc, ParentLine(doc, i)) # 0
  /\ doc[ParentLine(doc, ParentLine(doc, i))].key = "resources"

\* C33: a content the heuristic proposes has as many lines as the file it
\* was made from, every line that is not a memory line of resources.limits
\* is the line of the file (the memory of the requests is never rewritten),
\* and a rewritten line keeps its key and its indentation.
C33_OnlyLimitsMemoryRewritten ==
  fbCalls = 1 =>
    \A u \in fbUpdates :
      /\ Len(u.content) = Len(fbFiles[u.path])
      /\ \A i \in 1..Len(u.content) :
           /\ u.content[i].indent = fbFiles[u.path][i].indent
           /\ u.content[i].key = fbFiles[u.path][i].key
           /\ u.content[i] # fbFiles[u.path][i]
                => IsLimitsMemory(fbFiles[u.path], i)

\* the amount of memory a quantity stands for, in bytes: the number before
\* the suffix, times 2^20 for Mi and 2^30 for Gi
UnitFactor(unit) ==
  CASE unit = <<"M", "i">> -> 1024 * 1024
    [] unit = <<"G", "i">> -> 1024 * 1024 * 1024
    [] OTHER -> 1
Amount(limit) ==
  Atoi(SubSeq(limit, 1, NumLen(limit)))
    * UnitFactor(SubSeq(limit, NumLen(limit) + 1, Len(limit)))

\* C38: the heuristic never lowers a memory limit: the value it writes on a
\* memory line of resources.limits stands for at least the amount of memory
\* the line held, also for a limit in Gi such as 1Gi (stated for the line
\* whose value the heuristic read as the limit).
C38_LimitNeverLowered ==
  fbCalls = 1 =>
    \A u \in fbUpdates :
      \A i \in 1..Len(u.content) :
        ( /\ IsLimitsMemory(fbFiles[u.path], i)
          /\ memoryLimit(fbFiles[u.path]) = fbFiles[u.path][i].value ) =>
          Amount(u.content[i].value) >= Amount(fbFiles[u.path][i].value)

\* C39: the namespace of a diagnostic is never empty, also for a spec.name
\* that begins with '/': neither in the diagnostic nor in the call of
\* fetchGitHubFiles made with it.
C39_NamespaceNonEmpty ==
  /\ diag.filled => diag.namespace # << >>
  /\ fetchedFor.called => fetchedFor.namespace # << >>

\* in this step sendToAIEndpoint returns to handleResult
EngineReturns(r) == pc[r] \in EnginePcs /\ pc'[r] \notin EnginePcs
\* a decoded answer whose content holds a valid array
ArrayResponses == { resp \in AIResponses : resp.reply = "array" }

\* C34: the Publisher is invoked exactly when the engine returned at least
\* one update, be it from the model's reply or from the heuristic; a reply
\* that holds the valid empty array ends the run as "no updates", with no
\* publish request and without the heuristic being run.
C34_PublishIffUpdates ==
  /\ [](\A r \in Runs :
          /\ pc[r] = "publish" => fileUpdates[r] # {} /\ log[r].pubs = 0
          /\ log[r].pubs > 0 => pc[r] = "done" /\ log[r].remediated
          /\ log[r].result = "no-updates" => log[r].pubs = 0)
  /\ [][ \A r \in Runs :
           /\ (EngineReturns(r) /\ log'[r].fellBack) =>
                /\ pc'[r] = "publish" <=>
                     generateLocalFallbackResponse(ev[r].solution, files[r]) # {}
                /\ pc'[r] # "publish" =>
                     pc'[r] = "done" /\ log'[r].result = "no-updates"
           /\ (EngineReturns(r) /\ ~log'[r].fellBack) =>
                \E resp \in ArrayResponses :
                  /\ Send(r, resp)
                  /\ IF resp.updates # {}
                     THEN pc'[r] = "publish" /\ fileUpdates'[r] = resp.updates
                     ELSE pc'[r] = "done" /\ log'[r].result = "no-updates"
           /\ \A resp \in ArrayResponses :
                (pc[r] = "send" /\ Send(r, resp)) =>
                  EngineReturns(r) /\ ~log'[r].fellBack
           /\ (pc[r] = "publish" /\ pc'[r] # "publish") =>
                log'[r].pubs = 1 /\ pc'[r] = "done"
       ]_vars

\* the model answered an out-of-memory diagnostic with the empty array: the
\* run is over, the heuristic was not run and nothing was published
C34_Witness ==
  \E r \in Runs :
    /\ pc[r] = "done" /\ log[r].result = "no-updates"
    /\ log[r].remediated /\ ~log[r].fellBack
    /\ ev[r].solution = "oomkilled"
    /\ log[r].pubs = 0
    /\ publishCalls[ResourceID(ev[r])] = 0

\* in this step run r gets the answer resp to a chat/completions request
Answered(r, resp) == pc[r] = "send" /\ Send(r, resp)
Stamped(healthy) ==
  /\ endpointHealthy' = healthy
  /\ lastHealthCheck' = [set |-> TRUE, at |-> now]

\* C35: a chat/completions request that fails in transport leaves the cache
\* unhealthy with the timestamp of that moment, an attempt that succeeds
\* leaves it healthy, an answer with a non-success status (or a body that is
\* not JSON) leaves it as it was.  While the cache is unhealthy and less than
\* a minute old nothing but the answer to a chat/completions request changes
\* it and no probe is in flight; and an engine call that starts then, with
\* health gating enabled, returns the heuristic's updates in the same step:
\* it sends no probe and no chat/completions request.
C35_TransportFailureGates ==
  /\ [](\A r \in Runs : pc[r] = "probe" => ~HealthFresh)
  /\ [][ /\ \A r \in Runs :
              /\ \A resp \in AIResponses :
                   Answered(r, resp) =>
                     IF resp.status = 0 THEN Stamped(FALSE)
                     ELSE IF AttemptError(resp) = << >> THEN Stamped(TRUE)
                     ELSE UNCHANGED << endpointHealthy, lastHealthCheck >>
              /\ ( /\ pc[r] = "ai_start" /\ pc'[r] # "ai_start"
                   /\ aiHealthCheck /\ HealthFresh /\ ~endpointHealthy ) =>
                   /\ EngineReturns(r)
                   /\ log'[r].fellBack
                   /\ log'[r].verdict = "unhealthy" /\ log'[r].probed = -1
                   /\ UNCHANGED health
         /\ ( /\ HealthFresh /\ ~endpointHealthy
              /\ << endpointHealthy, lastHealthCheck >>' #
                   << endpointHealthy, lastHealthCheck >> ) =>
              \E r \in Runs : \E resp \in AIResponses :
                /\ Answered(r, resp)
                /\ resp.status = 0 \/ AttemptError(resp) = << >>
       ]_vars

\* the request of one run failed in transport after the run had been told
\* the endpoint was healthy, and it is about to try again; another run, which
\* asked within the same minute, was told unhealthy without a probe and fell
\* back
C35_Witness ==
  \E q \in Runs : \E r \in Runs \ {q} :
    /\ aiHealthCheck
    /\ pc[q] = "attempt" /\ lastResp[q].status = 0
    /\ log[q].verdict = "healthy"
    /\ ~endpointHealthy /\ HealthFresh
    /\ pc[r] \in {"publish", "done"}
    /\ log[r].fellBack /\ log[r].verdict = "unhealthy" /\ log[r].probed = -1

\* ---------------------------------------------------------------------
\* Two processes configured alike but for USE_FALLBACK, each making one
\* call of sendToAIEndpoint for the same diagnostic and files, against an
\* endpoint that answers both alike.
\* how the call finds the endpoint health: checking disabled, a fresh cached
\* verdict, or a stale cache and the verdict of the probe
HealthCases ==
  {"off", "cached-healthy", "cached-unhealthy", "probe-healthy",
   "probe-unhealthy"}
FlagInputs ==
  [solution : Solutions, files : {Repository}, health : HealthCases,
   answers : SeqsUpTo(AIResponses, MaxAttempts)]

EngineOut(reqs, ret) ==
  [requests |-> reqs, updates |-> ret.updates, err |-> ret.err, ran |-> TRUE]

\* a fallback that is taken only when the flag allows it
FallbackWhenEnabled(enabled, solution, fs) ==
  IF enabled THEN FallbackReturn(solution, fs)
  ELSE [updates |-> {}, err |-> TRUE]
\* sendToAIEndpoint at its four fallback returns, in a process whose
\* useFallback is `enabled`: the flag is not consulted
FallbackResponse(enabled, solution, fs) == FallbackReturn(solution, fs)

\* the retry loop from attempt number n on, AI_MAX_RETRIES being the
\* number of answers at hand; healthy is endpointHealthy as tryAIEndpoint
\* reads it, reqs the requests sent so far
RECURSIVE RetryLoop(_, _, _, _, _)
RetryLoop(enabled, inp, n, healthy, reqs) ==
  IF n >= Len(inp.answers)
  THEN EngineOut(reqs, FallbackResponse(enabled, inp.solution, inp.files))
  ELSE LET resp == inp.answers[n + 1]
           msg == AttemptError(resp)
           sent == (IF healthy THEN reqs ELSE Append(reqs, "HEAD base"))
                     \o <<"POST chat/completions">>
       IN IF msg = << >>
          THEN IF ExtractFails(resp)
               THEN EngineOut(sent, FallbackResponse(enabled, inp.solution,
                                                     inp.files))
               ELSE EngineOut(sent, [updates |-> resp.updates, err |-> FALSE])
          ELSE IF NonRetryable(msg)
          THEN EngineOut(sent, FallbackResponse(enabled, inp.solution,
                                                inp.files))
          ELSE RetryLoop(enabled, inp, n + 1,
                         IF resp.status = 0 THEN FALSE ELSE healthy, sent)

\* sendToAIEndpoint in a process whose useFallback is `enabled`
SendToAIEndpoint(enabled, inp) ==
  LET gated == inp.health # "off"
      probes == inp.health \in {"probe-healthy", "probe-unhealthy"}
      verdict == inp.health \in {"cached-healthy", "probe-healthy"}
      reqs == IF probes THEN <<"GET models">> ELSE << >>
  IN IF SkipsEndpoint(gated, verdict)
     THEN EngineOut(reqs, FallbackResponse(enabled, inp.solution, inp.files))
     ELSE RetryLoop(enabled, inp, 0, verdict, reqs)

InitFlag ==
  /\ PipelineIdle /\ ParsingIdle /\ HeuristicIdle /\ FetcherIdle /\ OthersIdle
  /\ TreeIdle
  /\ useFallback \in { f \in [Processes -> BOOLEAN] : f[1] }
  /\ flagIn \in FlagInputs
  /\ flagOut = [p \in Processes |-> NotRun]
  /\ banner = [p \in Processes |-> ""]

\* main prints its configuration, the flag included
PrintConfiguration(p) ==
  /\ banner[p] = ""
  /\ banner' = [banner EXCEPT ![p] =
                  IF useFallback[p] THEN "Local Fallback Enabled: true"
                  ELSE "Local Fallback Enabled: false"]
  /\ UNCHANGED << pipeline, parsing, heuristic, fetcher, others, tree,
                  useFallback, flagIn, flagOut >>

\* a handler of the process calls the engine
CallEngine(p) ==
  /\ banner[p] # "" /\ ~flagOut[p].ran
  /\ flagOut' = [flagOut EXCEPT ![p] = SendToAIEndpoint(useFallback[p], flagIn)]
  /\ UNCHANGED << pipeline, parsing, heuristic, fetcher, others, tree,
                  useFallback, flagIn, banner >>

NextFlag ==
  \/ \E p \in Processes : PrintConfiguration(p)
  \/ \E p \in Processes : CallEngine(p)

SpecFlag == InitFlag /\ [][NextFlag]_vars

\* C36: two processes that differ only in USE_FALLBACK and meet the same
\* diagnostic, files, endpoint health and answers send the same requests and
\* return the same updates; with the flag false the engine still returns the
\* heuristic's updates when the endpoint is reported unhealthy.
C36_FlagHasNoEffect ==
  /\ \A p \in Processes : \A q \in Processes :
       (flagOut[p].ran /\ flagOut[q].ran) => flagOut[p] = flagOut[q]
  /\ \A p \in Processes :
       ( /\ flagOut[p].ran /\ ~useFallback[p]
         /\ flagIn.health \in {"cached-unhealthy", "probe-unhealthy"} ) =>
         /\ flagOut[p].updates =
              generateLocalFallbackResponse(flagIn.solution, flagIn.files)
         /\ ~flagOut[p].err

\* one process ran with the flag true, the other with the flag false, and
\* the second returned the heuristic's update after a failed probe
C36_Witness ==
  /\ useFallback[1] /\ ~useFallback[2]
  /\ banner[1] # banner[2]
  /\ flagOut[1].ran /\ flagOut[2].ran
  /\ flagIn.health = "probe-unhealthy"
  /\ flagOut[2].requests = <<"GET models">>
  /\ flagOut[2].updates # {}

\* ---------------------------------------------------------------------
\* The pipeline on a goroutine that keeps running and with external calls
\* that each return or time out: a handler that can take a step takes one.
RunStep ==
  \E r \in Runs :
    \/ GateLock(r) \/ GateCheck(r) \/ GateMark(r)
    \/ \E res \in FetchResults : Fetch(r, res)
    \/ AIStart(r)
    \/ \E status \in ProbeResponses : Probe(r, status)
    \/ Attempt(r)
    \/ \E resp \in AIResponses : Send(r, resp)
    \/ \E status \in PublishResponses : Publish(r, status)
    \/ Return(r)

SpecTerminating == InitEngine /\ [][Next]_vars /\ WF_vars(RunStep)

FinalOutcomes == {"fetch-failed", "no-updates", "published", "publish-failed"}
PublishOutcomes == {"published", "publish-failed"}

====
